---------------------------- MODULE Spec2Model ----------------------------
(***************************************************************************)
(* Calendar -> Notion integration: the Notion task server                  *)
(* (src/src/notion_server.py), the Google Calendar server                  *)
(* (src/src/calendar_server.py), the CLI workflow                          *)
(* (src/src/calendar_to_notion_workflow.py) and the dashboard (src/app.py).*)
(*                                                                         *)
(* Python str values are TLA+ strings; TLC evaluates Len, SubSeq and \o on *)
(* them, so the text functions below work character by character as the    *)
(* Python methods do.  The emoji the source puts in front of titles and     *)
(* messages are written as ASCII tags ("[cal] ", "[target] ", "[ok] ",      *)
(* "[x] ", "[chart] "): the module text is ASCII only.                      *)
(***************************************************************************)
EXTENDS Integers, Sequences, FiniteSets, TLC

VARIABLES
    text,            \* SpecExtract: the description handed to the extractors
    items_bulk,      \* SpecExtract: result of _extract_action_items_from_text
    items_simple,    \* SpecExtract: result of _extract_action_items_simple
    ex_done,         \* SpecExtract: which extractors have run on text
    notion_api_key,      \* NotionMCPServer.notion_api_key ("" when unset)
    notion_database_id,  \* NotionMCPServer.notion_database_id ("" when unset)
    pc,              \* position of the Notion tool call being handled
    tool,            \* name of the tool of the current or last Notion call
    args,            \* arguments of the current or last Notion call
    result,          \* what handle_call_tool returned for the last call
    http,            \* HTTP requests sent to Notion by the current or last call
    calls,           \* _create_task invocations of the current or last call
    last_resp,       \* what requests.post gave a one-request tool (create_task, get_tasks)
    any_failed,      \* some _create_task of the call did not create a page
    failed_after_created, \* a _create_task of the call created no page after earlier ones had
    events,          \* bulk creation: the parsed event list
    ev_i,            \* bulk creation: index of the event being processed
    pending,         \* bulk creation / summary: action items still to create
    created_tasks,   \* bulk creation: created_tasks; summary: created_actions
    proc,            \* the program this behaviour runs: a server, the CLI or the dashboard
    service,         \* CalendarMCPServer.service: "none" or "built"
    token_json,      \* the file token.json: "absent", "valid", "expired" (refreshable), "invalid"
    credentials_json,\* whether the file credentials.json exists
    cal_pc,          \* position of the calendar tool call
    cal_tool,        \* name of the tool of the last calendar call
    cal_args,        \* arguments of the last calendar call
    cal_result,      \* what the calendar handle_call_tool returned for it
    cal_requests,    \* events().list requests sent by the last calendar call
    auth_attempts,   \* _authenticate_google_calendar runs of the last calendar call
    cal_answer,      \* what events().list gave the last calendar call
    sync_pc,         \* position of the sync run of the CLI or of the dashboard
    sync_kind,       \* "daily", "custom" (CLI), "today", "date" (dashboard)
    sync_date,       \* the date asked for, "" for today
    fetched,         \* the events the fetch gave the orchestration
    sum_i,           \* _create_meeting_summaries: index of the event at hand
    console,         \* what the run printed or showed, in order
    sink_calls,      \* the Notion tool calls of the run that returned, in order
    sync_history,    \* st.session_state.sync_history
    stats,           \* st.session_state.stats
    session_events   \* st.session_state.events

ex_vars == <<text, items_bulk, items_simple, ex_done>>
notion_env == <<notion_api_key, notion_database_id>>
notion_vars == <<pc, tool, args, result, http, calls, last_resp, any_failed,
                 failed_after_created, events, ev_i, pending, created_tasks>>
cal_env == <<service, token_json, credentials_json>>
cal_vars == <<cal_pc, cal_tool, cal_args, cal_result, cal_requests, auth_attempts,
              cal_answer>>
sync_run == <<sync_pc, sync_kind, sync_date, fetched, sum_i, console, sink_calls>>
session_state == <<sync_history, stats, session_events>>
sync_vars == <<sync_run, session_state>>
vars == <<ex_vars, notion_env, notion_vars, proc, cal_env, cal_vars, sync_vars>>

(***************************************************************************)
(* Bounds of the model.                                                    *)
(***************************************************************************)
MaxVariedLines == 3
MaxRepeatedLines == 6
MaxEvents == 2

(***************************************************************************)
(* Python str methods.                                                     *)
(***************************************************************************)
Min(a, b) == IF a < b THEN a ELSE b

CharAt(s, i) == SubSeq(s, i, i)

\* s[:n]
Prefix(s, n) == SubSeq(s, 1, Min(n, Len(s)))

\* s[n:] for 0 <= n
Drop(s, n) == IF n >= Len(s) THEN "" ELSE SubSeq(s, n + 1, Len(s))

UpperChars == "ABCDEFGHIJKLMNOPQRSTUVWXYZ"
LowerChars == "abcdefghijklmnopqrstuvwxyz"

\* the least element of a non-empty set of numbers
Least(S) == CHOOSE i \in S : \A j \in S : i <= j

\* the least i >= from with alphabet[i] = c, or 0
IndexIn(c, alphabet, from) ==
    LET at == { i \in from..Len(alphabet) : CharAt(alphabet, i) = c }
    IN  IF at = {} THEN 0 ELSE Least(at)

LowerChar(c) ==
    LET i == IndexIn(c, UpperChars, 1)
    IN  IF i = 0 THEN c ELSE CharAt(LowerChars, i)

UpperChar(c) ==
    LET i == IndexIn(c, LowerChars, 1)
    IN  IF i = 0 THEN c ELSE CharAt(UpperChars, i)

IsAlpha(c) == IndexIn(c, UpperChars, 1) # 0 \/ IndexIn(c, LowerChars, 1) # 0

RECURSIVE lower(_)
\* str.lower()
lower(s) ==
    IF s = "" THEN ""
    ELSE IF Len(s) = 1 THEN LowerChar(s)
    ELSE lower(Prefix(s, Len(s) \div 2)) \o lower(Drop(s, Len(s) \div 2))

IsSpace(c) == c \in {" ", "\t", "\n", "\r", "\f"}

RECURSIVE lstrip(_)
lstrip(s) == IF s # "" /\ IsSpace(CharAt(s, 1)) THEN lstrip(Drop(s, 1)) ELSE s

RECURSIVE rstrip(_)
rstrip(s) ==
    IF s # "" /\ IsSpace(CharAt(s, Len(s))) THEN rstrip(Prefix(s, Len(s) - 1)) ELSE s

\* str.strip()
strip(s) == rstrip(lstrip(s))

startswith(s, p) == Len(p) <= Len(s) /\ Prefix(s, Len(p)) = p

\* s.find(sub) + 1: where sub first starts in s, or 0
Find(s, sub) ==
    LET at == { i \in 1..(Len(s) - Len(sub) + 1) : SubSeq(s, i, i + Len(sub) - 1) = sub }
    IN  IF at = {} THEN 0 ELSE Least(at)

\* sub in s
contains(s, sub) == Find(s, sub) # 0

RECURSIVE replace(_, _, _)
\* s.replace(old, new) for a non-empty old: every non-overlapping occurrence,
\* scanning from the left
replace(s, old, new) ==
    LET i == Find(s, old)
    IN  IF i = 0 THEN s
        ELSE Prefix(s, i - 1) \o new \o replace(Drop(s, i + Len(old) - 1), old, new)

\* the least i >= from with s[i] = c, or 0
FindChar(s, c, from) == IndexIn(c, s, from)

RECURSIVE split(_, _)
\* s.split(sep) for a one-character sep: "" gives <<"">>, a trailing sep
\* gives a last empty piece
split(s, sep) ==
    LET i == FindChar(s, sep, 1)
    IN  IF i = 0 THEN <<s>>
        ELSE <<Prefix(s, i - 1)>> \o split(Drop(s, i), sep)

RECURSIVE join(_, _)
\* sep.join(parts)
join(parts, sep) ==
    IF parts = <<>> THEN ""
    ELSE IF Len(parts) = 1 THEN parts[1]
    ELSE parts[1] \o sep \o join(Tail(parts), sep)

\* seq[:n] on a list
Take(seq, n) == SubSeq(seq, 1, Min(n, Len(seq)))

\* the lists of at most n elements of S
SeqsUpTo(S, n) == UNION { [1..k -> S] : k \in 0..n }

(***************************************************************************)
(* Action-item extraction.                                                 *)
(***************************************************************************)
action_keywords ==
    <<"todo", "action item", "follow up", "assign", "task", "deadline", "due">>

\* any(keyword in line for keyword in action_keywords)
AnyKeywordIn(line) == \E k \in 1..Len(action_keywords) : contains(line, action_keywords[k])

\* line_stripped.replace('- ', '').replace('* ', '').strip()
CleanItem(line_stripped) == strip(replace(replace(line_stripped, "- ", ""), "* ", ""))

RECURSIVE ScanLinesFromTen(_, _)
\* the for loop over lines, keeping the cleaned items of 10 characters too
ScanLinesFromTen(lines, limit) ==
    IF lines = <<>> THEN <<>>
    ELSE LET line == Head(lines)
             line_stripped == strip(line)
             clean_item == CleanItem(line_stripped)
             here == IF line_stripped # "" /\ AnyKeywordIn(line)
                        /\ clean_item # "" /\ Len(clean_item) >= 10
                     THEN <<Prefix(clean_item, limit)>>
                     ELSE <<>>
         IN  here \o ScanLinesFromTen(Tail(lines), limit)

RECURSIVE ScanLines(_, _)
\* the for loop over lines: the cleaned items longer than 10 characters of the
\* lines that hold a keyword, each cut to limit characters
ScanLines(lines, limit) ==
    IF lines = <<>> THEN <<>>
    ELSE LET line == Head(lines)
             line_stripped == strip(line)
             clean_item == CleanItem(line_stripped)
             here == IF line_stripped # "" /\ AnyKeywordIn(line)
                        /\ clean_item # "" /\ Len(clean_item) > 10
                     THEN <<Prefix(clean_item, limit)>>
                     ELSE <<>>
         IN  here \o ScanLines(Tail(lines), limit)

BulkItemLimit == 100
BulkItemCap == 5
SimpleItemLimit == 80
SimpleItemCap == 3
SummaryItemCap == 5

\* the bulk extractor without its final slice
extract_action_items_uncapped(t) == ScanLines(split(lower(t), "\n"), BulkItemLimit)

\* NotionMCPServer._extract_action_items_from_text
extract_action_items_from_text(t) ==
    Take(ScanLines(split(lower(t), "\n"), BulkItemLimit), BulkItemCap)

\* a simple extractor that keeps the last three items
extract_action_items_simple_last_three(t) ==
    LET found == ScanLines(split(lower(t), "\n"), SimpleItemLimit)
    IN  SubSeq(found, Len(found) - Min(SimpleItemCap, Len(found)) + 1, Len(found))

\* CalendarToNotionWorkflow._extract_action_items_simple
extract_action_items_simple(t) ==
    Take(ScanLines(split(lower(t), "\n"), SimpleItemLimit), SimpleItemCap)

(***************************************************************************)
(* Dicts, numbers and dates.                                               *)
(***************************************************************************)
\* d.get(k, default)
Get(d, k, default) == IF k \in DOMAIN d THEN d[k] ELSE default

EmptyDict == [k \in {} |-> ""]

\* None (null in JSON) where a str is expected: a value that no str equals
None == "<None>"

\* bool(x) of a str or None
Truthy(x) == x # "" /\ x # None

Digits == "0123456789"

IsDigit(c) == IndexIn(c, Digits, 1) # 0

DigitVal(c) == IndexIn(c, Digits, 1) - 1

RECURSIVE ToStr(_)
\* str(n) for n >= 0
ToStr(n) ==
    IF n < 10 THEN CharAt(Digits, n + 1)
    ELSE ToStr(n \div 10) \o CharAt(Digits, (n % 10) + 1)

AllDigits(s) == \A i \in 1..Len(s) : IsDigit(CharAt(s, i))

RECURSIVE ToInt(_)
\* int(s) for a string of digits
ToInt(s) ==
    IF s = "" THEN 0
    ELSE 10 * ToInt(Prefix(s, Len(s) - 1)) + DigitVal(CharAt(s, Len(s)))

IsLeap(y) == (y % 4 = 0 /\ y % 100 # 0) \/ y % 400 = 0

DaysInMonth(y, m) ==
    IF m = 2 THEN (IF IsLeap(y) THEN 29 ELSE 28)
    ELSE IF m \in {4, 6, 9, 11} THEN 30 ELSE 31

\* datetime.strptime(s, '%Y-%m-%d') does not raise ValueError: %Y is four
\* digits, %m is 1..12 and %d is 1..31 written with one or two digits (%d also
\* as a space and a digit), nothing else may remain, and the day exists
strptime_ok(s) ==
    LET parts == split(s, "-")
    IN  /\ Len(parts) = 3
        /\ Len(parts[1]) = 4 /\ AllDigits(parts[1])
        /\ Len(parts[2]) \in {1, 2} /\ AllDigits(parts[2])
        /\ \/ Len(parts[3]) \in {1, 2} /\ AllDigits(parts[3])
           \/ Len(parts[3]) = 2 /\ CharAt(parts[3], 1) = " "
                                /\ IsDigit(CharAt(parts[3], 2))
        /\ LET y == ToInt(parts[1])
               m == ToInt(parts[2])
               d == ToInt(lstrip(parts[3]))
           IN  /\ y >= 1
               /\ m \in 1..12
               /\ d >= 1 /\ d <= DaysInMonth(y, m)

RECURSIVE TitleFrom(_, _)
TitleFrom(s, prev_cased) ==
    IF s = "" THEN ""
    ELSE LET c == CharAt(s, 1)
         IN  (IF prev_cased THEN LowerChar(c) ELSE UpperChar(c))
             \o TitleFrom(Drop(s, 1), IsAlpha(c))

\* str.title(): a letter after a letter is lowercased, any other letter is
\* uppercased
title(s) == TitleFrom(s, FALSE)

(***************************************************************************)
(* The Notion API as the server sees it: what requests.post gives.         *)
(***************************************************************************)
NoResponse == [kind |-> "none", status_code |-> 0, id |-> "", text |-> "", results |-> <<>>]

HttpResponse(status_code, id, body, results) ==
    [kind |-> "response", status_code |-> status_code, id |-> id, text |-> body,
     results |-> results]

\* requests.post raised (no connection, timeout, ...)
HttpException(msg) ==
    [kind |-> "exception", status_code |-> 0, id |-> "", text |-> msg, results |-> <<>>]

\* answers to POST /pages: created, a 200 whose body holds no id, a 2xx other
\* than 200, a client error, no connection
CreateResponses ==
    { HttpResponse(200, "page-1", "{}", <<>>),
      HttpResponse(200, "", "{}", <<>>),
      HttpResponse(201, "page-2", "{}", <<>>),
      HttpResponse(400, "", "validation_error", <<>>),
      HttpException("Connection refused") }

Page(name, status, priority) == [Name |-> name, Status |-> status, Priority |-> priority]

\* answers to POST /databases/<id>/query: "" stands for a property the page
\* does not have
QueryResponses ==
    { HttpResponse(200, "", "{}", <<>>),
      HttpResponse(200, "", "{}", <<Page("Call vendor", "Not started", "High")>>),
      HttpResponse(200, "", "{}", <<Page("", "", ""), Page("Retro", "Done", "Low")>>),
      HttpResponse(401, "", "unauthorized", <<>>),
      HttpException("Connection refused") }

(***************************************************************************)
(* NotionMCPServer.                                                        *)
(***************************************************************************)
\* a TextContent whose text is the message t
Text(t) == [kind |-> "text", text |-> t, is_json |-> FALSE, value |-> <<>>]

\* a TextContent whose text is json.dumps(value)
TextJson(value) == [kind |-> "text", text |-> "", is_json |-> TRUE, value |-> value]

\* an exception leaving the function
Raise(exc, msg) == [kind |-> "raise", text |-> msg, is_json |-> FALSE, value |-> <<>>]

NoResult == [kind |-> "none", text |-> "", is_json |-> FALSE, value |-> <<>>]

notion_url == "https://api.notion.com/v1"

NotConfiguredText == "Error: Notion API key or database ID not configured."

\* the check that opens _create_task
NotionConfigured == notion_api_key # "" /\ notion_database_id # ""

\* _get_notion_headers
get_notion_headers ==
    [Authorization |-> "Bearer " \o notion_api_key,
     ContentType |-> "application/json",
     NotionVersion |-> "2022-06-28"]

\* the Created property: datetime.now().isoformat()
NowIso == "<now>"

\* the Due Date step when strptime raises a ValueError that nothing catches
DueDatePropertyUnguarded(due_date) ==
    IF due_date # "" /\ ~strptime_ok(due_date)
    THEN [raised |-> TRUE, props |-> EmptyDict]
    ELSE [raised |-> FALSE,
          props |-> IF due_date # "" THEN ("Due Date" :> due_date) ELSE EmptyDict]

\* "Add due date if provided": the property when due_date is non-empty and
\* valid, nothing (ValueError passed over) when it is not
DueDateProperty(due_date) ==
    [raised |-> FALSE,
     props |-> IF due_date # "" /\ strptime_ok(due_date)
               THEN ("Due Date" :> due_date)
               ELSE EmptyDict]

\* a payload that always carries the default priority and source
create_task_payload_defaults_only(arguments) ==
    LET description == Get(arguments, "description", "")
        due_date == Get(arguments, "due_date", "")
    IN  [parent |-> notion_database_id,
         properties |->
             [Name |-> arguments["title"],
              Status |-> "Not started",
              Priority |-> "Medium",
              Source |-> "Calendar",
              Created |-> NowIso] @@ DueDateProperty(due_date).props,
         children |-> IF description # "" THEN <<description>> ELSE <<>>]

\* the payload _create_task builds; arguments holds 'title'
create_task_payload(arguments) ==
    LET description == Get(arguments, "description", "")
        due_date == Get(arguments, "due_date", "")
        priority == Get(arguments, "priority", "Medium")
        source == Get(arguments, "source", "Calendar")
    IN  [parent |-> notion_database_id,
         properties |->
             [Name |-> arguments["title"],
              Status |-> "Not started",
              Priority |-> priority,
              Source |-> source,
              Created |-> NowIso] @@ DueDateProperty(due_date).props,
         children |-> IF description # "" THEN <<description>> ELSE <<>>]

PostPages(payload) ==
    [url |-> notion_url \o "/pages", headers |-> get_notion_headers, json |-> payload]

\* the try block around requests.post in _create_task
create_task_outcome(arguments, resp) ==
    IF resp.kind = "exception"
    THEN Text("[x] Error creating task: " \o resp.text)
    ELSE IF resp.status_code = 200
    THEN IF resp.id = ""
         THEN Text("[x] Error creating task: 'id'")
         ELSE Text("[ok] Task created successfully: '" \o arguments["title"]
                   \o "'\nPage ID: " \o resp.id)
    ELSE Text("[x] Error creating task: " \o ToStr(resp.status_code)
              \o " - " \o resp.text)

\* _create_task(arguments) when requests.post gives resp: what it returns or
\* raises, and the requests it sent
create_task(arguments, resp) ==
    IF ~NotionConfigured
    THEN [result |-> Text(NotConfiguredText), sent |-> <<>>]
    ELSE IF "title" \notin DOMAIN arguments
    THEN [result |-> Raise("KeyError", "'title'"), sent |-> <<>>]
    ELSE IF DueDateProperty(Get(arguments, "due_date", "")).raised
    THEN [result |-> Raise("ValueError", "time data does not match format"), sent |-> <<>>]
    ELSE [result |-> create_task_outcome(arguments, resp),
          sent |-> <<PostPages(create_task_payload(arguments))>>]

\* whether that _create_task created a page
Created(r) == r.kind = "text" /\ startswith(r.text, "[ok] Task created")

\* handle_call_tool's try/except around the tool: an exception becomes a text
handle_call_tool(name, r) ==
    IF r.kind = "raise"
    THEN Text("Error executing " \o name \o ": " \o r.text)
    ELSE r

PageSize == 10

\* the filter _get_tasks adds to its query when filter_by is used as is
tasks_filter_verbatim(filter_by) ==
    IF filter_by # "" /\ lower(filter_by) \in {"high", "medium", "low"}
    THEN [filter |-> [property |-> "Priority", equals |-> filter_by]]
    ELSE EmptyDict

\* "Add filter if specified": only a priority name, in any case, adds a filter
tasks_filter(filter_by) ==
    IF filter_by # "" /\ lower(filter_by) \in {"high", "medium", "low"}
    THEN [filter |-> [property |-> "Priority", equals |-> title(filter_by)]]
    ELSE EmptyDict

RECURSIVE FormatPages(_)
\* the loop over data.get('results', []); "" is a property the page lacks
FormatPages(pages) ==
    IF pages = <<>> THEN <<>>
    ELSE LET page == Head(pages)
             name == IF page.Name # "" THEN page.Name ELSE "Untitled"
             status == IF page.Status # "" THEN page.Status ELSE "Unknown"
             priority == IF page.Priority # "" THEN page.Priority ELSE "Unknown"
         IN  <<"* " \o name \o " [" \o status \o "] - " \o priority \o " priority">>
             \o FormatPages(Tail(pages))

\* _get_tasks(arguments) when requests.post gives resp; it has no
\* configuration check, so the query is always sent
get_tasks(arguments, resp) ==
    LET filter_by == Get(arguments, "filter_by", "")
        payload == [page_size |-> PageSize] @@ tasks_filter(filter_by)
        request == [url |-> notion_url \o "/databases/" \o notion_database_id \o "/query",
                    headers |-> get_notion_headers, json |-> payload]
        tasks == FormatPages(resp.results)
        out == IF resp.kind = "exception"
               THEN Text("[x] Error fetching tasks: " \o resp.text)
               ELSE IF resp.status_code = 200
               THEN IF tasks # <<>>
                    THEN Text("[list] Found " \o ToStr(Len(tasks)) \o " tasks:\n"
                              \o join(tasks, "\n"))
                    ELSE Text("[list] No tasks found in the database.")
               ELSE Text("[x] Error fetching tasks: " \o ToStr(resp.status_code)
                         \o " - " \o resp.text)
    IN  [result |-> out, sent |-> <<request>>]

(***************************************************************************)
(* Tool arguments the model draws from.  Absent marks a key the dict does  *)
(* not hold.                                                               *)
(***************************************************************************)
Absent == "<absent>"

\* the dict holding the keys of d whose value is not Absent
Dict(d) == [k \in {x \in DOMAIN d : d[x] # Absent} |-> d[k]]

CreateTaskArgs ==
    { Dict([title |-> t, description |-> d, due_date |-> u, priority |-> p, source |-> s]) :
        t \in {Absent, "Call vendor"},
        d \in {Absent, "", "Bring the contract"},
        u \in {Absent, "", "2024-03-01", "2024-3-1", "2024-02-30", "next week",
               "2024-03-01T10:00:00Z"},
        p \in {Absent, "High"},
        s \in {Absent, "Meeting"} }

GetTasksArgs ==
    { Dict([filter_by |-> f]) :
        f \in {Absent, "", "high", "HIGH", "Medium", "lOw", "urgent", "Calendar",
               "Not started"} }

UnknownTools == {"delete_task"}

(***************************************************************************)
(* Calendar events as the Notion server receives them.                     *)
(***************************************************************************)
NoDescription == "No description"
NoLocation == "No location specified"

TwoItemNotes ==
    "Agenda for the week\n- TODO: call vendor\n* Follow up with Bob on budget"

SixItemNotes ==
    "todo item number 1\ntodo item number 2\nLunch\ntodo item number 3\n"
    \o "todo item number 4\ntodo item number 5\ntodo item number 6"

\* one line of 126 characters
LongLine ==
    "TODO: 0123456789012345678901234567890123456789012345678901234567890123456789"
    \o "01234567890123456789012345678901234567890123456789"

EventSamples ==
    { [title |-> "Standup", start_time |-> "2024-03-01T10:00:00Z",
       description |-> NoDescription, location |-> NoLocation],
      [title |-> "Planning", start_time |-> "2024-03-02",
       description |-> TwoItemNotes, location |-> "Room 1"],
      EmptyDict,
      [title |-> "Retro", start_time |-> "2024-03-04T09:30:00+01:00",
       description |-> SixItemNotes, location |-> NoLocation],
      [title |-> "Lunch", start_time |-> "next week",
       description |-> "Lunch with the team", location |-> "Cafe"],
      [title |-> "Trip", start_time |-> "",
       description |-> NoDescription, location |-> "Airport"],
      [title |-> "Review", start_time |-> "2024-03-06",
       description |-> LongLine, location |-> NoLocation] }

\* a str holding JSON text, by what json.loads makes of it
JsonText(value) == [kind |-> "json", value |-> value]
NotJson(t) == [kind |-> "notjson", value |-> <<>>]
JsonNumber == [kind |-> "number", value |-> <<>>]

\* json.dumps of a list of events
json_dumps(value) == JsonText(value)

\* the str values the model gives as the 'events' argument
EventsJson ==
    { json_dumps(l) : l \in SeqsUpTo(EventSamples, MaxEvents) }
    \cup { NotJson("not json"), JsonNumber }

BulkArgs ==
    { e @@ x :
        e \in {EmptyDict} \cup { [events |-> j] : j \in EventsJson },
        x \in {EmptyDict, [extract_action_items |-> TRUE],
               [extract_action_items |-> FALSE]} }

MaxSummaryItems == 6

\* the lists given as 'action_items': none holds an action keyword
SummaryItemLists == { [k \in 1..n |-> "Send report " \o ToStr(k)] : n \in 0..MaxSummaryItems }

SummaryArgs ==
    { t @@ s @@ d @@ a @@ i :
        t \in {EmptyDict, [meeting_title |-> "Planning"]},
        s \in {EmptyDict, [summary |-> "We agreed on the budget"]},
        d \in {EmptyDict, [meeting_date |-> "2024-03-02"]},
        a \in {EmptyDict, [attendees |-> "a@x.org, b@x.org"]},
        i \in {EmptyDict} \cup
              { [action_items |-> j] :
                  j \in { json_dumps(l) : l \in SummaryItemLists }
                        \cup { JsonText(<<>>), NotJson("not json"), JsonNumber } } }

\* datetime.now().strftime('%Y-%m-%d')
Today == "2024-03-05"

(***************************************************************************)
(* _create_tasks_from_calendar_events and _create_meeting_summary.         *)
(***************************************************************************)
\* "Extract date from start_time for due date" with the time part kept
due_date_of_verbatim(event) == Get(event, "start_time", "")

\* "Extract date from start_time for due date"
due_date_of(event) ==
    LET start_time == Get(event, "start_time", "")
    IN  IF Truthy(start_time)
        THEN IF contains(start_time, "T") THEN split(start_time, "T")[1] ELSE start_time
        ELSE ""

\* main_task_args of the event
main_task_args(event) ==
    LET event_title == Get(event, "title", "Untitled Event")
        description == Get(event, "description", "")
        location == Get(event, "location", "")
        event_description ==
            "[cal] Calendar Event\n"
            \o (IF location # NoLocation THEN "[pin] Location: " \o location \o "\n" ELSE "")
            \o (IF description # NoDescription THEN "[memo] Notes: " \o description \o "\n" ELSE "")
    IN  [title |-> "[cal] " \o event_title,
         description |-> event_description,
         due_date |-> due_date_of(event),
         priority |-> "Medium",
         source |-> "Calendar"]

\* action_task_args of an item, in bulk creation (due_date of the event) and in
\* the meeting summary (due_date = meeting_date)
action_task_args(item, meeting, due_date) ==
    [title |-> "[target] " \o item,
     description |-> "Action item from meeting: " \o meeting,
     due_date |-> due_date,
     priority |-> "High",
     source |-> "Meeting"]

\* the items of an event when every line of any description counts as one
items_of_event_every_line(event, extract_action_items) ==
    IF extract_action_items
    THEN Take(split(lower(Get(event, "description", "")), "\n"), BulkItemCap)
    ELSE <<>>

\* the items of an event when the flag is not looked at
items_of_event_unasked(event, extract_action_items) ==
    IF Get(event, "description", "") # NoDescription
    THEN extract_action_items_from_text(Get(event, "description", ""))
    ELSE <<>>

RECURSIVE Reversed(_)
Reversed(seq) == IF seq = <<>> THEN <<>> ELSE Append(Reversed(Tail(seq)), Head(seq))

\* the items of an event taken from the last line up
items_of_event_last_first(event, extract_action_items) ==
    IF extract_action_items /\ Get(event, "description", "") # NoDescription
    THEN Reversed(extract_action_items_from_text(Get(event, "description", "")))
    ELSE <<>>

\* "Extract action items if requested"
items_of_event(event, extract_action_items) ==
    IF extract_action_items /\ Get(event, "description", "") # NoDescription
    THEN extract_action_items_from_text(Get(event, "description", ""))
    ELSE <<>>

\* a text that counts the requests sent instead of the tasks listed
bulk_summary_requests_sent(tasks) ==
    "[ok] Created " \o ToStr(Len(http)) \o " tasks from calendar events:\n"
    \o join([k \in 1..Len(tasks) |-> "* " \o tasks[k]], "\n")

\* the text bulk creation returns
bulk_summary(tasks) ==
    "[ok] Created " \o ToStr(Len(tasks)) \o " tasks from calendar events:\n"
    \o join([k \in 1..Len(tasks) |-> "* " \o tasks[k]], "\n")

\* summary_task_args
summary_task_args(arguments, action_items) ==
    LET attendees == Get(arguments, "attendees", "")
        meeting_description ==
            "[chart] Meeting Summary\n"
            \o (IF attendees # "" THEN "[people] Attendees: " \o attendees \o "\n" ELSE "")
            \o "[memo] Summary:\n" \o arguments["summary"] \o "\n"
            \o (IF action_items # <<>>
                THEN "\n[target] Action Items:\n"
                     \o join([k \in 1..Len(Take(action_items, SummaryItemCap)) |->
                                 "* " \o action_items[k] \o "\n"], "")
                ELSE "")
    IN  [title |-> "[chart] Meeting Summary: " \o arguments["meeting_title"],
         description |-> meeting_description,
         due_date |-> Get(arguments, "meeting_date", Today),
         priority |-> "Medium",
         source |-> "Meeting"]

(***************************************************************************)
(* The Notion server's tool calls.  create_task, get_tasks and an unknown  *)
(* tool are one request at most and one step; bulk creation and the meeting *)
(* summary take one step for each _create_task they await.                 *)
(***************************************************************************)
NotionIdle ==
    /\ pc = "idle"
    /\ tool = ""
    /\ args = EmptyDict
    /\ result = NoResult
    /\ http = <<>>
    /\ calls = <<>>
    /\ last_resp = NoResponse
    /\ any_failed = FALSE
    /\ failed_after_created = FALSE
    /\ events = <<>>
    /\ ev_i = 0
    /\ pending = <<>>
    /\ created_tasks = <<>>

NotionEnvInit ==
    /\ notion_api_key \in {"", "secret_key"}
    /\ notion_database_id \in {"", "db1"}

\* a call that returns at once with inner result r, having sent the requests
\* of out
ReturnAtOnce(name, a, out, resp, made) ==
    /\ pc' = "returned"
    /\ tool' = name
    /\ args' = a
    /\ result' = handle_call_tool(name, out.result)
    /\ http' = out.sent
    /\ calls' = made
    /\ last_resp' = IF out.sent = <<>> THEN NoResponse ELSE resp
    /\ any_failed' = ~Created(out.result)
    /\ failed_after_created' = FALSE
    /\ events' = <<>>
    /\ ev_i' = 0
    /\ pending' = <<>>
    /\ created_tasks' = <<>>

CallRecord(a, ev, role) == [args |-> a, ev |-> ev, role |-> role]

CallCreateTask ==
    /\ proc = "notion_server"
    /\ pc = "idle"
    /\ \E a \in CreateTaskArgs, resp \in CreateResponses :
          ReturnAtOnce("create_task", a, create_task(a, resp), resp,
                       <<CallRecord(a, 0, "direct")>>)
    /\ UNCHANGED <<ex_vars, notion_env, proc, cal_env, cal_vars, sync_vars>>

CallGetTasks ==
    /\ proc = "notion_server"
    /\ pc = "idle"
    /\ \E a \in GetTasksArgs, resp \in QueryResponses :
          ReturnAtOnce("get_tasks", a, get_tasks(a, resp), resp, <<>>)
    /\ UNCHANGED <<ex_vars, notion_env, proc, cal_env, cal_vars, sync_vars>>

CallUnknownTool ==
    /\ proc = "notion_server"
    /\ pc = "idle"
    /\ \E name \in UnknownTools :
          ReturnAtOnce(name, EmptyDict,
                       [result |-> Raise("ValueError", "Unknown tool: " \o name),
                        sent |-> <<>>],
                       NoResponse, <<>>)
    /\ UNCHANGED <<ex_vars, notion_env, proc, cal_env, cal_vars, sync_vars>>

\* a call that starts a loop of _create_task calls over todo
StartLoop(name, a, at, evs, todo) ==
    /\ pc' = at
    /\ tool' = name
    /\ args' = a
    /\ result' = NoResult
    /\ http' = <<>>
    /\ calls' = <<>>
    /\ last_resp' = NoResponse
    /\ any_failed' = FALSE
    /\ failed_after_created' = FALSE
    /\ events' = evs
    /\ ev_i' = 1
    /\ pending' = todo
    /\ created_tasks' = <<>>

NothingSent(r) == [result |-> r, sent |-> <<>>]

\* lines 250-255: read the arguments, parse the events
CallBulk ==
    /\ proc = "notion_server"
    /\ pc = "idle"
    /\ \E a \in BulkArgs :
          LET name == "create_tasks_from_calendar_events"
          IN  IF "events" \notin DOMAIN a
              THEN ReturnAtOnce(name, a, NothingSent(Raise("KeyError", "'events'")),
                                NoResponse, <<>>)
              ELSE IF a.events.kind = "notjson"
              THEN ReturnAtOnce(name, a,
                       NothingSent(Text("[x] Error: Invalid JSON format for events.")),
                       NoResponse, <<>>)
              ELSE IF a.events.kind = "number"
              THEN ReturnAtOnce(name, a,
                       NothingSent(Text("[x] Error creating tasks from events: "
                                        \o "'int' object is not iterable")),
                       NoResponse, <<>>)
              ELSE StartLoop(name, a, "bulk", a.events.value, <<>>)
    /\ UNCHANGED <<ex_vars, notion_env, proc, cal_env, cal_vars, sync_vars>>

\* an awaited _create_task whose failure (no page created) ends the loop
AwaitCreateTaskStoppingOnFailure(task_args, resp, ev, role, error_prefix, after) ==
    LET out == create_task(task_args, resp)
    IN  /\ http' = http \o out.sent
        /\ calls' = Append(calls, CallRecord(task_args, ev, role))
        /\ last_resp' = last_resp
        /\ any_failed' = (any_failed \/ ~Created(out.result))
        /\ failed_after_created' =
               (failed_after_created
                \/ (calls # <<>> /\ ~any_failed /\ ~Created(out.result)))
        /\ IF ~Created(out.result)
           THEN /\ pc' = "returned"
                /\ result' = handle_call_tool(tool, Text(error_prefix \o out.result.text))
                /\ UNCHANGED <<ev_i, pending, created_tasks>>
           ELSE /\ result' = result
                /\ after
        /\ UNCHANGED <<tool, args, events>>

\* an awaited _create_task that sends its request again when no page was created
AwaitCreateTaskRetrying(task_args, resp, ev, role, error_prefix, after) ==
    LET out == create_task(task_args, resp)
    IN  /\ http' = IF Created(out.result) THEN http \o out.sent
                   ELSE http \o out.sent \o out.sent
        /\ calls' = Append(calls, CallRecord(task_args, ev, role))
        /\ last_resp' = last_resp
        /\ any_failed' = (any_failed \/ ~Created(out.result))
        /\ failed_after_created' =
               (failed_after_created
                \/ (calls # <<>> /\ ~any_failed /\ ~Created(out.result)))
        /\ IF out.result.kind = "raise"
           THEN /\ pc' = "returned"
                /\ result' = handle_call_tool(tool, Text(error_prefix \o out.result.text))
                /\ UNCHANGED <<ev_i, pending, created_tasks>>
           ELSE /\ result' = result
                /\ after
        /\ UNCHANGED <<tool, args, events>>

\* one awaited _create_task inside a loop: its request and call are logged; an
\* exception it raises ends the call with the text of the loop's except clause
AwaitCreateTask(task_args, resp, ev, role, error_prefix, after) ==
    LET out == create_task(task_args, resp)
    IN  /\ http' = http \o out.sent
        /\ calls' = Append(calls, CallRecord(task_args, ev, role))
        /\ last_resp' = last_resp
        /\ any_failed' = (any_failed \/ ~Created(out.result))
        /\ failed_after_created' =
               (failed_after_created
                \/ (calls # <<>> /\ ~any_failed /\ ~Created(out.result)))
        /\ IF out.result.kind = "raise"
           THEN /\ pc' = "returned"
                /\ result' = handle_call_tool(tool, Text(error_prefix \o out.result.text))
                /\ UNCHANGED <<ev_i, pending, created_tasks>>
           ELSE /\ result' = result
                /\ after
        /\ UNCHANGED <<tool, args, events>>

\* lines 257-294: the event's own task, then its action items are extracted
BulkEvent ==
    /\ pc = "bulk"
    /\ pending = <<>>
    /\ ev_i <= Len(events)
    /\ \E resp \in CreateResponses :
          LET event == events[ev_i]
              items == items_of_event(event, Get(args, "extract_action_items", TRUE))
          IN  AwaitCreateTask(main_task_args(event), resp, ev_i, "event",
                  "[x] Error creating tasks from events: ",
                  /\ pc' = "bulk"
                  /\ created_tasks' =
                         Append(created_tasks,
                                "Event: " \o Get(event, "title", "Untitled Event"))
                  /\ pending' = items
                  /\ ev_i' = IF items = <<>> THEN ev_i + 1 ELSE ev_i)
    /\ UNCHANGED <<ex_vars, notion_env, proc, cal_env, cal_vars, sync_vars>>

\* the tasks of all action items of the event requested together
BulkItemsGathered ==
    /\ pc = "bulk"
    /\ pending # <<>>
    /\ \E resp \in CreateResponses :
          LET event == events[ev_i]
              n == Len(pending)
              task_args(j) == action_task_args(pending[j],
                                               Get(event, "title", "Untitled Event"),
                                               due_date_of(event))
              sent[j \in 0..n] ==
                  IF j = 0 THEN <<>> ELSE sent[j - 1] \o create_task(task_args(j), resp).sent
              failed == ~Created(create_task(task_args(1), resp).result)
          IN  /\ http' = http \o sent[n]
              /\ calls' = calls \o [j \in 1..n |-> CallRecord(task_args(j), ev_i, "action")]
              /\ last_resp' = last_resp
              /\ any_failed' = (any_failed \/ failed)
              /\ failed_after_created' = (failed_after_created \/ (~any_failed /\ failed))
              /\ result' = result
              /\ pc' = "bulk"
              /\ created_tasks' = created_tasks \o [j \in 1..n |-> "Action: " \o pending[j]]
              /\ pending' = <<>>
              /\ ev_i' = ev_i + 1
              /\ UNCHANGED <<tool, args, events>>
    /\ UNCHANGED <<ex_vars, notion_env, proc, cal_env, cal_vars, sync_vars>>

\* lines 296-306: the task of the next action item of the event
BulkItem ==
    /\ pc = "bulk"
    /\ pending # <<>>
    /\ \E resp \in CreateResponses :
          LET event == events[ev_i]
              item == Head(pending)
          IN  AwaitCreateTask(
                  action_task_args(item, Get(event, "title", "Untitled Event"),
                                   due_date_of(event)),
                  resp, ev_i, "action",
                  "[x] Error creating tasks from events: ",
                  /\ pc' = "bulk"
                  /\ created_tasks' = Append(created_tasks, "Action: " \o item)
                  /\ pending' = Tail(pending)
                  /\ ev_i' = IF Tail(pending) = <<>> THEN ev_i + 1 ELSE ev_i)
    /\ UNCHANGED <<ex_vars, notion_env, proc, cal_env, cal_vars, sync_vars>>

\* lines 308-312: the loop is over
BulkReturn ==
    /\ pc = "bulk"
    /\ pending = <<>>
    /\ ev_i > Len(events)
    /\ pc' = "returned"
    /\ result' = handle_call_tool(tool, Text(bulk_summary(created_tasks)))
    /\ UNCHANGED <<tool, args, http, calls, last_resp, any_failed,
                   failed_after_created, events, ev_i,
                   pending, created_tasks>>
    /\ UNCHANGED <<ex_vars, notion_env, proc, cal_env, cal_vars, sync_vars>>

\* lines 343-362: read the arguments, parse the action items
CallSummary ==
    /\ proc = "notion_server"
    /\ pc = "idle"
    /\ \E a \in SummaryArgs :
          LET name == "create_meeting_summary"
              j == Get(a, "action_items", JsonText(<<>>))
          IN  IF "meeting_title" \notin DOMAIN a
              THEN ReturnAtOnce(name, a, NothingSent(Raise("KeyError", "'meeting_title'")),
                                NoResponse, <<>>)
              ELSE IF "summary" \notin DOMAIN a
              THEN ReturnAtOnce(name, a, NothingSent(Raise("KeyError", "'summary'")),
                                NoResponse, <<>>)
              ELSE IF j.kind = "notjson"
              THEN ReturnAtOnce(name, a,
                       NothingSent(Text("[x] Error creating meeting summary: "
                                        \o "Expecting value: line 1 column 1 (char 0)")),
                       NoResponse, <<>>)
              ELSE IF j.kind = "number"
              THEN ReturnAtOnce(name, a,
                       NothingSent(Text("[x] Error creating meeting summary: "
                                        \o "'int' object is not subscriptable")),
                       NoResponse, <<>>)
              ELSE StartLoop(name, a, "summary_main", <<>>, j.value)
    /\ UNCHANGED <<ex_vars, notion_env, proc, cal_env, cal_vars, sync_vars>>

\* the summary task, after which every supplied item gets a task
SummaryMainUncapped ==
    /\ pc = "summary_main"
    /\ \E resp \in CreateResponses :
          AwaitCreateTask(summary_task_args(args, pending), resp, 0, "summary",
              "[x] Error creating meeting summary: ",
              /\ pc' = "summary_items"
              /\ pending' = pending
              /\ UNCHANGED <<ev_i, created_tasks>>)
    /\ UNCHANGED <<ex_vars, notion_env, proc, cal_env, cal_vars, sync_vars>>

\* lines 363-371: the summary task
SummaryMain ==
    /\ pc = "summary_main"
    /\ \E resp \in CreateResponses :
          AwaitCreateTask(summary_task_args(args, pending), resp, 0, "summary",
              "[x] Error creating meeting summary: ",
              /\ pc' = "summary_items"
              /\ pending' = Take(pending, SummaryItemCap)
              /\ UNCHANGED <<ev_i, created_tasks>>)
    /\ UNCHANGED <<ex_vars, notion_env, proc, cal_env, cal_vars, sync_vars>>

\* lines 375-385: the task of the next action item
SummaryItem ==
    /\ pc = "summary_items"
    /\ pending # <<>>
    /\ \E resp \in CreateResponses :
          AwaitCreateTask(
              action_task_args(Head(pending), args["meeting_title"],
                               Get(args, "meeting_date", Today)),
              resp, 0, "action",
              "[x] Error creating meeting summary: ",
              /\ pc' = "summary_items"
              /\ pending' = Tail(pending)
              /\ created_tasks' = Append(created_tasks, Head(pending))
              /\ UNCHANGED ev_i)
    /\ UNCHANGED <<ex_vars, notion_env, proc, cal_env, cal_vars, sync_vars>>

\* lines 387-390
SummaryReturn ==
    /\ pc = "summary_items"
    /\ pending = <<>>
    /\ pc' = "returned"
    /\ result' = handle_call_tool(tool,
                     Text("[ok] Created meeting summary and " \o ToStr(Len(created_tasks))
                          \o " action items for: " \o args["meeting_title"]))
    /\ UNCHANGED <<tool, args, http, calls, last_resp, any_failed,
                   failed_after_created, events, ev_i,
                   pending, created_tasks>>
    /\ UNCHANGED <<ex_vars, notion_env, proc, cal_env, cal_vars, sync_vars>>

\* the server loop: the result has gone to the client, the next call is awaited
AwaitNextCall ==
    /\ proc = "notion_server"
    /\ pc = "returned"
    /\ pc' = "idle"
    /\ tool' = ""
    /\ args' = EmptyDict
    /\ result' = NoResult
    /\ http' = <<>>
    /\ calls' = <<>>
    /\ last_resp' = NoResponse
    /\ any_failed' = FALSE
    /\ failed_after_created' = FALSE
    /\ events' = <<>>
    /\ ev_i' = 0
    /\ pending' = <<>>
    /\ created_tasks' = <<>>
    /\ UNCHANGED <<ex_vars, notion_env, proc, cal_env, cal_vars, sync_vars>>

(***************************************************************************)
(* CalendarMCPServer: Google Calendar as the server sees it.               *)
(***************************************************************************)
Pad(s, width) == IF Len(s) >= width THEN s ELSE SubSeq("0000", 1, width - Len(s)) \o s

\* datetime(y, m, d).isoformat() + 'Z' at midnight
MidnightIso(y, m, d) ==
    Pad(ToStr(y), 4) \o "-" \o Pad(ToStr(m), 2) \o "-" \o Pad(ToStr(d), 2) \o "T00:00:00Z"

\* (datetime(y, m, d) + timedelta(days=1)).isoformat() + 'Z'
NextMidnightIso(y, m, d) ==
    IF d < DaysInMonth(y, m) THEN MidnightIso(y, m, d + 1)
    ELSE IF m < 12 THEN MidnightIso(y, m + 1, 1)
    ELSE MidnightIso(y + 1, 1, 1)

\* the time range of the day written s, which strptime accepts
DayRange(s) ==
    LET parts == split(s, "-")
        y == ToInt(parts[1])
        m == ToInt(parts[2])
        d == ToInt(lstrip(parts[3]))
    IN  [timeMin |-> MidnightIso(y, m, d), timeMax |-> NextMidnightIso(y, m, d)]

\* the keyword arguments of service.events().list
ListRequest(calendar_id, range) ==
    [calendarId |-> calendar_id, timeMin |-> range.timeMin, timeMax |-> range.timeMax,
     singleEvents |-> TRUE, orderBy |-> "startTime"]

\* events of the API: a timed one with a summary only, an all-day one with
\* every field (and an attendee without an email), one with nothing but an
\* empty start, one without a start
RawItemSamples ==
    { [start |-> [dateTime |-> "2024-03-05T10:00:00Z"], summary |-> "Standup"],
      [start |-> [date |-> "2024-03-05"], summary |-> "Planning",
       description |-> TwoItemNotes, location |-> "Room 1",
       attendees |-> <<[email |-> "ann@example.org"], [displayName |-> "Bob"]>>],
      [start |-> EmptyDict],
      [summary |-> "Broken"] }

ListItems(items) == [kind |-> "items", items |-> items, text |-> ""]

ListException(msg) == [kind |-> "exception", items |-> <<>>, text |-> msg]

\* no list request was sent
NoAnswer == [kind |-> "none", items |-> <<>>, text |-> ""]

\* what events().list(...).execute() gives
ListOutcomes ==
    { ListItems(l) : l \in SeqsUpTo(RawItemSamples, MaxEvents) }
        \cup { ListException("<HttpError 403 Forbidden>") }

\* what the refresh of an expired token, or the browser flow, ends in
AuthOutcomes == { "granted", "refused" }

TokenFiles == { "absent", "valid", "expired", "invalid" }

AuthDone(tok) == [raised |-> FALSE, text |-> "", token |-> tok]

AuthRaise(msg, tok) == [raised |-> TRUE, text |-> msg, token |-> tok]

\* _authenticate_google_calendar, from the files tok and creds_file; outcome is
\* the end of the refresh or of the flow when one is run
authenticate_google_calendar(tok, creds_file, outcome) ==
    IF tok = "valid" THEN AuthDone(tok)
    ELSE IF tok = "expired"
    THEN IF outcome = "granted" THEN AuthDone("valid")
         ELSE AuthRaise("invalid_grant: Token has been expired or revoked.", tok)
    ELSE IF ~creds_file
    THEN AuthRaise("credentials.json file not found. "
                   \o "Please download it from Google Cloud Console.", tok)
    ELSE IF outcome = "granted" THEN AuthDone("valid")
    ELSE AuthRaise("access_denied", tok)

\* lines 172-183 and 229-242: one event of the API as the event of the pipeline;
\* the event has a start
event_info(event) ==
    [title |-> Get(event, "summary", "No title"),
     start_time |-> Get(event["start"], "dateTime", Get(event["start"], "date", None)),
     description |-> Get(event, "description", NoDescription),
     location |-> Get(event, "location", NoLocation),
     attendees |-> LET people == Get(event, "attendees", <<>>)
                   IN  [i \in 1..Len(people) |-> Get(people[i], "email", None)]]

\* the body of the try of both fetches after the request: lo is what the
\* request gave, none_text the message for no event
format_events(lo, none_text) ==
    IF lo.kind = "exception" THEN Text("Error fetching events: " \o lo.text)
    ELSE IF lo.items = <<>> THEN Text(none_text)
    ELSE IF \E i \in 1..Len(lo.items) : "start" \notin DOMAIN lo.items[i]
    THEN Text("Error fetching events: 'start'")
    ELSE TextJson([i \in 1..Len(lo.items) |-> event_info(lo.items[i])])

\* the outcome of a calendar tool: its result, the server and the token file
\* after it, the list requests it sent and the authentications it ran
CalOutcome(r, svc, tok, sent, auths) ==
    [result |-> r, service |-> svc, token |-> tok, sent |-> sent, auths |-> auths,
     answer |-> NoAnswer]

\* the outcome of a fetch that sent its list request and got lo
Answered(out, lo) == [out EXCEPT !.answer = lo]

\* authenticate on every call, built or not
ensure_service_every_call(svc, tok, creds_file, ao) ==
    LET au == authenticate_google_calendar(tok, creds_file, ao)
    IN  [raised |-> au.raised, text |-> au.text, token |-> au.token, auths |-> 1]

\* lines 139-140 and 198-199: authenticate unless the service is built
ensure_service(svc, tok, creds_file, ao) ==
    IF svc = "built" THEN [raised |-> FALSE, text |-> "", token |-> tok, auths |-> 0]
    ELSE LET au == authenticate_google_calendar(tok, creds_file, ao)
         IN  [raised |-> au.raised, text |-> au.text, token |-> au.token, auths |-> 1]

\* a failed authentication after which the server counts as authenticated
AuthFailedServiceKept(au) ==
    CalOutcome(Raise("Exception", au.text), "built", au.token, <<>>, au.auths)

\* the exception of the authentication leaves the tool
AuthFailed(au) == CalOutcome(Raise("Exception", au.text), "none", au.token, <<>>, au.auths)

get_todays_events(arguments, svc, tok, creds_file, ao, lo) ==
    LET au == ensure_service(svc, tok, creds_file, ao)
    IN  IF au.raised THEN AuthFailed(au)
        ELSE Answered(CalOutcome(format_events(lo, "No events found for today."),
                                 "built", au.token,
                                 <<ListRequest(Get(arguments, "calendar_id", "primary"),
                                               DayRange(Today))>>,
                                 au.auths),
                      lo)

\* get_events_by_date falling back to today for a date strptime rejects
get_events_by_date_lenient(arguments, svc, tok, creds_file, ao, lo) ==
    LET au == ensure_service(svc, tok, creds_file, ao)
    IN  IF au.raised THEN AuthFailed(au)
        ELSE IF "date" \notin DOMAIN arguments
        THEN CalOutcome(Raise("KeyError", "'date'"), "built", au.token, <<>>, au.auths)
        ELSE LET day == IF strptime_ok(arguments["date"]) THEN arguments["date"]
                        ELSE Today
             IN  Answered(CalOutcome(format_events(lo, "No events found for "
                                                       \o arguments["date"] \o "."),
                                     "built", au.token,
                                     <<ListRequest(Get(arguments, "calendar_id", "primary"),
                                                   DayRange(day))>>,
                                     au.auths),
                          lo)

get_events_by_date(arguments, svc, tok, creds_file, ao, lo) ==
    LET au == ensure_service(svc, tok, creds_file, ao)
    IN  IF au.raised THEN AuthFailed(au)
        ELSE IF "date" \notin DOMAIN arguments
        THEN CalOutcome(Raise("KeyError", "'date'"), "built", au.token, <<>>, au.auths)
        ELSE IF ~strptime_ok(arguments["date"])
        THEN CalOutcome(Text("Invalid date format. Please use YYYY-MM-DD."),
                        "built", au.token, <<>>, au.auths)
        ELSE Answered(CalOutcome(format_events(lo, "No events found for "
                                                   \o arguments["date"] \o "."),
                                 "built", au.token,
                                 <<ListRequest(Get(arguments, "calendar_id", "primary"),
                                               DayRange(arguments["date"]))>>,
                                 au.auths),
                      lo)

topic_keywords ==
    <<"discuss", "review", "plan", "strategy", "budget", "timeline", "project">>

\* the stripped lines holding one of the keywords
LinesWith(lines, keywords) ==
    LET hit(i) == \E k \in 1..Len(keywords) : contains(lines[i], keywords[k])
        F[i \in 0..Len(lines)] ==
            IF i = 0 THEN <<>>
            ELSE IF hit(i) THEN Append(F[i - 1], strip(lines[i])) ELSE F[i - 1]
    IN  F[Len(lines)]

extract_meeting_details(arguments, svc, tok) ==
    IF "event_text" \notin DOMAIN arguments
    THEN CalOutcome(Raise("KeyError", "'event_text'"), svc, tok, <<>>, 0)
    ELSE LET lines == split(lower(arguments["event_text"]), "\n")
         IN  CalOutcome(
                 TextJson([summary |-> "Meeting details extracted",
                           potential_action_items |-> LinesWith(lines, action_keywords),
                           key_topics |-> LinesWith(lines, topic_keywords),
                           attendees_mentioned |-> <<>>]),
                 svc, tok, <<>>, 0)

\* handle_call_tool without its try
calendar_handle_call_tool_uncaught(name, r) == r

\* lines 93-107: an exception of the tool becomes a text
calendar_handle_call_tool(name, r) ==
    IF r.kind = "raise" THEN Text("Error executing " \o name \o ": " \o r.text)
    ELSE r

CalendarIds == { Absent, "work" }

TodaysEventsArgs == { Dict([calendar_id |-> c]) : c \in CalendarIds }

DateSamples == { Absent, "2024-03-01", "2024-12-31", "2024-2-9", "03/01/2024", "2024-02-30" }

EventsByDateArgs ==
    { Dict([date |-> d, calendar_id |-> c]) : d \in DateSamples, c \in CalendarIds }

MeetingDetailsArgs ==
    { Dict([event_text |-> t]) :
          t \in { Absent, TwoItemNotes, "Review the budget\n  TODO: plan the project  " } }

CalendarIdle ==
    /\ cal_pc = "idle"
    /\ cal_tool = ""
    /\ cal_args = EmptyDict
    /\ cal_result = NoResult
    /\ cal_requests = <<>>
    /\ auth_attempts = 0
    /\ cal_answer = NoAnswer

\* a server just started, whatever files it finds
CalendarEnvInit ==
    /\ service = "none"
    /\ token_json \in TokenFiles
    /\ credentials_json \in BOOLEAN

\* a calendar call with outcome out has returned
CalendarReturn(name, a, out) ==
    /\ cal_pc' = "returned"
    /\ cal_tool' = name
    /\ cal_args' = a
    /\ cal_result' = calendar_handle_call_tool(name, out.result)
    /\ cal_requests' = out.sent
    /\ auth_attempts' = out.auths
    /\ cal_answer' = out.answer
    /\ service' = out.service
    /\ token_json' = out.token
    /\ UNCHANGED credentials_json

CallGetTodaysEvents ==
    /\ proc = "calendar_server"
    /\ cal_pc = "idle"
    /\ \E a \in TodaysEventsArgs, ao \in AuthOutcomes, lo \in ListOutcomes :
          CalendarReturn("get_todays_events", a,
              get_todays_events(a, service, token_json, credentials_json, ao, lo))
    /\ UNCHANGED <<ex_vars, notion_env, notion_vars, proc, sync_vars>>

CallGetEventsByDate ==
    /\ proc = "calendar_server"
    /\ cal_pc = "idle"
    /\ \E a \in EventsByDateArgs, ao \in AuthOutcomes, lo \in ListOutcomes :
          CalendarReturn("get_events_by_date", a,
              get_events_by_date(a, service, token_json, credentials_json, ao, lo))
    /\ UNCHANGED <<ex_vars, notion_env, notion_vars, proc, sync_vars>>

CallExtractMeetingDetails ==
    /\ proc = "calendar_server"
    /\ cal_pc = "idle"
    /\ \E a \in MeetingDetailsArgs :
          CalendarReturn("extract_meeting_details", a,
              extract_meeting_details(a, service, token_json))
    /\ UNCHANGED <<ex_vars, notion_env, notion_vars, proc, sync_vars>>

CallUnknownCalendarTool ==
    /\ proc = "calendar_server"
    /\ cal_pc = "idle"
    /\ \E name \in UnknownTools :
          CalendarReturn(name, EmptyDict,
              CalOutcome(Raise("ValueError", "Unknown tool: " \o name),
                         service, token_json, <<>>, 0))
    /\ UNCHANGED <<ex_vars, notion_env, notion_vars, proc, sync_vars>>

\* the server loop: the result has gone to the client, the next call is awaited
AwaitNextCalendarCall ==
    /\ proc = "calendar_server"
    /\ cal_pc = "returned"
    /\ cal_pc' = "idle"
    /\ cal_tool' = ""
    /\ cal_args' = EmptyDict
    /\ cal_result' = NoResult
    /\ cal_requests' = <<>>
    /\ auth_attempts' = 0
    /\ cal_answer' = NoAnswer
    /\ UNCHANGED <<ex_vars, notion_env, notion_vars, proc, cal_env, sync_vars>>

\* no sync has run
SyncIdle ==
    /\ sync_pc = "idle"
    /\ sync_kind = ""
    /\ sync_date = ""
    /\ fetched = <<>>
    /\ sum_i = 0
    /\ console = <<>>
    /\ sink_calls = <<>>

\* StreamlitMCPDashboard.__init__ on an empty session
SessionInit ==
    /\ sync_history = <<>>
    /\ stats = [events_today |-> 0, tasks_created |-> 0, action_items |-> 0,
                time_saved |-> 0]
    /\ session_events = <<>>

ExIdle ==
    /\ text = ""
    /\ items_bulk = <<>>
    /\ items_simple = <<>>
    /\ ex_done = {}

\* one of the two servers, just started
Init ==
    /\ proc \in {"notion_server", "calendar_server"}
    /\ ExIdle
    /\ NotionIdle
    /\ CalendarIdle
    /\ SyncIdle
    /\ SessionInit
    /\ IF proc = "notion_server"
       THEN NotionEnvInit /\ service = "none" /\ token_json = "absent"
                          /\ credentials_json = FALSE
       ELSE CalendarEnvInit /\ notion_api_key = "" /\ notion_database_id = ""

Next ==
    \/ CallCreateTask
    \/ CallGetTasks
    \/ CallUnknownTool
    \/ CallBulk
    \/ BulkEvent
    \/ BulkItem
    \/ BulkReturn
    \/ CallSummary
    \/ SummaryMain
    \/ SummaryItem
    \/ SummaryReturn
    \/ AwaitNextCall
    \/ CallGetTodaysEvents
    \/ CallGetEventsByDate
    \/ CallExtractMeetingDetails
    \/ CallUnknownCalendarTool
    \/ AwaitNextCalendarCall

Spec == Init /\ [][Next]_vars

(***************************************************************************)
(* The orchestration: CalendarToNotionWorkflow (CLI) and the dashboard.    *)
(* Every sync starts its own calendar server and its own Notion server.    *)
(***************************************************************************)
MaxSyncs == 2

Say(via, t) == [via |-> via, text |-> t]

Separator == "============================================================"

\* str(e) when the server process or its session fails
LaunchError == "Connection closed"

\* datetime.now().strftime("%Y-%m-%d %H:%M:%S")
NowStamp == Today \o " 09:00:00"

LongNotes ==
    "Review of the quarter with the whole team\n- Action item: send the report\nLunch"

\* events of the API in a sync: one without description, one whose
\* description reads like a meeting, one like it with an attendee without an
\* email, one without a start, one whose description holds six action items,
\* one with a short description
SyncItem == [
    standup |-> [start |-> [dateTime |-> "2024-03-05T10:00:00Z"], summary |-> "Standup"],
    workshop |-> [start |-> [date |-> "2024-03-05"], summary |-> "Workshop",
                  description |-> LongNotes,
                  attendees |-> <<[email |-> "ann@example.org"],
                                  [email |-> "bob@example.org"]>>],
    planning |-> [start |-> EmptyDict, summary |-> "Planning",
                  description |-> TwoItemNotes, location |-> "Room 1",
                  attendees |-> <<[email |-> "ann@example.org"], [displayName |-> "Bob"]>>],
    broken |-> [summary |-> "Broken"],
    retro |-> [start |-> [date |-> "2024-03-06"], summary |-> "Retro",
               description |-> SixItemNotes],
    lunch |-> [start |-> [date |-> "2024-03-06"], summary |-> "Lunch",
               description |-> "Bring your own food"] ]

\* what events().list(...).execute() gives in a sync
SyncListOutcomes ==
    { ListItems(<<>>),
      ListItems(<<SyncItem.standup>>),
      ListItems(<<SyncItem.workshop, SyncItem.standup>>),
      ListItems(<<SyncItem.planning>>),
      ListItems(<<SyncItem.broken>>),
      ListItems(<<SyncItem.retro>>),
      ListItems(<<SyncItem.lunch>>),
      ListException("<HttpError 403 Forbidden>") }

\* the date_str of run_custom_date_sync (any str; main passes those that
\* strptime accepts) and of st.date_input
CliDates == { "2024-03-01", "03/01/2024" }
DashboardDates == { "2024-03-01" }

\* the calendar tool call of a sync: the server is started and answers, or the
\* start fails
CalendarSession(launched, name, a, out) ==
    IF launched THEN CalendarReturn(name, a, out)
    ELSE UNCHANGED <<cal_env, cal_vars>>

\* a fetch after which the sync goes on to the sink whatever it got
FetchedThenSink(kind, date, got, said) ==
    /\ sync_kind' = kind
    /\ sync_date' = date
    /\ fetched' = got
    /\ console' = said
    /\ sync_pc' = "fetched"
    /\ sum_i' = 0
    /\ sink_calls' = <<>>

\* the fetch of a sync has ended with the events got, having shown said
Fetched(kind, date, got, said) ==
    /\ sync_kind' = kind
    /\ sync_date' = date
    /\ fetched' = got
    /\ console' = said
    /\ sync_pc' = IF got = <<>> THEN "done" ELSE "fetched"
    /\ sum_i' = 0
    /\ sink_calls' = <<>>

\* run_daily_sync up to its step 2, with _get_calendar_events
RunDailySync ==
    /\ proc = "cli"
    /\ sync_pc = "idle"
    /\ \E launched \in BOOLEAN, ao \in AuthOutcomes, lo \in SyncListOutcomes :
          LET name == "get_todays_events"
              out == get_todays_events(EmptyDict, service, token_json,
                                       credentials_json, ao, lo)
              r == calendar_handle_call_tool(name, out.result)
              got == IF launched /\ r.is_json THEN r.value ELSE <<>>
              said ==
                  <<Say("print", "[rocket] Starting Calendar to Notion Integration..."),
                    Say("print", Separator),
                    Say("print", "[cal] Fetching today's calendar events...")>>
                  \o (IF ~launched
                      THEN <<Say("print", "[x] Error fetching calendar events: "
                                          \o LaunchError)>>
                      ELSE IF r.is_json
                      THEN <<Say("print", "[chart] Found " \o ToStr(Len(r.value))
                                          \o " calendar events")>>
                      ELSE IF contains(r.text, "No events found")
                      THEN <<Say("print", "[cal] No events scheduled for today")>>
                      ELSE <<Say("print", "[x] Error parsing calendar data: " \o r.text)>>)
                  \o (IF got = <<>>
                      THEN <<Say("print", "[cal] No calendar events found for today.")>>
                      ELSE <<>>)
          IN  /\ CalendarSession(launched, name, EmptyDict, out)
              /\ Fetched("daily", "", got, said)
    /\ UNCHANGED <<ex_vars, notion_env, notion_vars, proc, session_state>>

\* run_custom_date_sync up to _process_events_to_notion
RunCustomDateSync ==
    /\ proc = "cli"
    /\ sync_pc = "idle"
    /\ \E date_str \in CliDates, launched \in BOOLEAN, ao \in AuthOutcomes,
          lo \in SyncListOutcomes :
          LET name == "get_events_by_date"
              a == [date |-> date_str]
              out == get_events_by_date(a, service, token_json, credentials_json, ao, lo)
              r == calendar_handle_call_tool(name, out.result)
              got == IF launched /\ r.is_json THEN r.value ELSE <<>>
              said ==
                  <<Say("print", "[rocket] Starting Calendar to Notion sync for "
                                 \o date_str \o "..."),
                    Say("print", Separator)>>
                  \o (IF ~launched
                      THEN <<Say("print", "[x] Error in custom date sync: " \o LaunchError)>>
                      ELSE IF r.is_json
                      THEN <<Say("print", "[chart] Found " \o ToStr(Len(r.value))
                                          \o " events for " \o date_str)>>
                      ELSE IF contains(r.text, "No events found")
                      THEN <<Say("print", "[cal] No events found for " \o date_str)>>
                      ELSE <<>>)
          IN  /\ CalendarSession(launched, name, a, out)
              /\ Fetched("custom", date_str, got, said)
    /\ UNCHANGED <<ex_vars, notion_env, notion_vars, proc, session_state>>

\* StreamlitMCPDashboard.get_calendar_events: what it shows
get_calendar_events_shown(launched, r) ==
    IF ~launched THEN <<Say("st.error", "Error fetching calendar events: " \o LaunchError)>>
    ELSE IF r.is_json \/ contains(r.text, "No events found") THEN <<>>
    ELSE <<Say("st.error", "Error parsing calendar data: " \o r.text)>>

\* the button "Sync Today's Events" up to create_notion_tasks
SyncTodaysEvents ==
    /\ proc = "dashboard"
    /\ sync_pc = "idle"
    /\ \E launched \in BOOLEAN, ao \in AuthOutcomes, lo \in SyncListOutcomes :
          LET name == "get_todays_events"
              out == get_todays_events(EmptyDict, service, token_json,
                                       credentials_json, ao, lo)
              r == calendar_handle_call_tool(name, out.result)
              got == IF launched /\ r.is_json THEN r.value ELSE <<>>
              said ==
                  get_calendar_events_shown(launched, r)
                  \o (IF got # <<>>
                      THEN <<Say("st.success", "[ok] Found " \o ToStr(Len(got))
                                               \o " events for today!")>>
                      ELSE <<Say("st.info", "[cal] No events found for today")>>)
          IN  /\ CalendarSession(launched, name, EmptyDict, out)
              /\ Fetched("today", "", got, said)
              /\ session_events' = got
              /\ stats' = [stats EXCEPT !.events_today = Len(got)]
    /\ UNCHANGED <<ex_vars, notion_env, notion_vars, proc, sync_history>>

\* the button "Sync Selected Date" up to create_notion_tasks
SyncSelectedDate ==
    /\ proc = "dashboard"
    /\ sync_pc = "idle"
    /\ \E date_str \in DashboardDates, launched \in BOOLEAN, ao \in AuthOutcomes,
          lo \in SyncListOutcomes :
          LET name == "get_events_by_date"
              a == [date |-> date_str]
              out == get_events_by_date(a, service, token_json, credentials_json, ao, lo)
              r == calendar_handle_call_tool(name, out.result)
              got == IF launched /\ r.is_json THEN r.value ELSE <<>>
              said ==
                  get_calendar_events_shown(launched, r)
                  \o (IF got # <<>>
                      THEN <<Say("st.success", "[ok] Found " \o ToStr(Len(got))
                                               \o " events for " \o date_str \o "!")>>
                      ELSE <<Say("st.info", "[cal] No events found for " \o date_str)>>)
          IN  /\ CalendarSession(launched, name, a, out)
              /\ Fetched("date", date_str, got, said)
    /\ UNCHANGED <<ex_vars, notion_env, notion_vars, proc, session_state>>

\* the arguments both orchestrations give create_tasks_from_calendar_events
bulk_call_args(evs) == [events |-> json_dumps(evs), extract_action_items |-> TRUE]

\* what run_daily_sync prints after _process_events_to_notion
Completion(kind) ==
    IF kind = "daily"
    THEN <<Say("print", "\n" \o Separator),
           Say("print", "[ok] Daily sync completed successfully!")>>
    ELSE <<>>

SinkCall(name, a, sent, r) == [tool |-> name, args |-> a, http |-> sent, result |-> r]

\* _process_events_to_notion up to the bulk call
ProcessEventsToNotion ==
    /\ proc = "cli"
    /\ sync_pc = "fetched"
    /\ \E launched \in BOOLEAN :
          LET processing == Say("print", "\n[memo] Processing " \o ToStr(Len(fetched))
                                         \o " events for Notion...")
          IN  IF launched
              THEN /\ StartLoop("create_tasks_from_calendar_events",
                                bulk_call_args(fetched), "bulk", fetched, <<>>)
                   /\ sync_pc' = "bulk"
                   /\ console' = Append(console, processing)
              ELSE /\ UNCHANGED notion_vars
                   /\ sync_pc' = "done"
                   /\ console' = console
                          \o <<processing,
                               Say("print", "[x] Error processing events to Notion: "
                                            \o LaunchError)>>
                          \o Completion(sync_kind)
    /\ UNCHANGED <<sync_kind, sync_date, fetched, sum_i, sink_calls>>
    /\ UNCHANGED <<ex_vars, notion_env, proc, cal_env, cal_vars, session_state>>

\* lines 90-95 and 102: the bulk call has returned, the summaries start
NotionResult ==
    /\ proc = "cli"
    /\ sync_pc = "bulk"
    /\ pc = "returned"
    /\ sync_pc' = "summaries"
    /\ sum_i' = 1
    /\ console' = console \o <<Say("print", "[list] Notion Result: " \o result.text),
                               Say("print", "\n[chart] Creating meeting summaries...")>>
    /\ sink_calls' = Append(sink_calls, SinkCall(tool, args, http, result))
    /\ UNCHANGED <<sync_kind, sync_date, fetched>>
    /\ UNCHANGED <<ex_vars, notion_env, notion_vars, proc, cal_env, cal_vars, session_state>>

summary_keywords == <<"meeting", "discuss", "review", "action", "todo", "follow">>

\* every event with a description looks like a meeting
looks_like_meeting_any(description) == description # NoDescription

\* "Only create summaries for events that look like meetings"
looks_like_meeting(description) ==
    /\ description # NoDescription
    /\ Len(description) > 50
    /\ \E k \in 1..Len(summary_keywords) :
          contains(lower(description), summary_keywords[k])

\* "Extract date from start_time"
meeting_date_of(start_time) ==
    IF Truthy(start_time)
    THEN IF contains(start_time, "T") THEN split(start_time, "T")[1] ELSE start_time
    ELSE Today

\* the arguments of create_meeting_summary for an event whose attendees are
\* all str
meeting_summary_args(event) ==
    LET attendees == Get(event, "attendees", <<>>)
        description == Get(event, "description", "")
    IN  [meeting_title |-> Get(event, "title", ""),
         meeting_date |-> meeting_date_of(Get(event, "start_time", "")),
         attendees |-> join(attendees, ", "),
         summary |-> description,
         action_items |-> json_dumps(extract_action_items_simple(description))]

\* _create_meeting_summaries: the next event, up to its create_meeting_summary
CreateMeetingSummary ==
    /\ proc = "cli"
    /\ sync_pc = "summaries"
    /\ sum_i <= Len(fetched)
    /\ LET event == fetched[sum_i]
           attendees == Get(event, "attendees", <<>>)
       IN  IF ~looks_like_meeting(Get(event, "description", ""))
           THEN /\ sum_i' = sum_i + 1
                /\ UNCHANGED <<sync_pc, console, notion_vars>>
           ELSE IF \E i \in 1..Len(attendees) : attendees[i] = None
           THEN /\ sum_i' = sum_i + 1
                /\ console' = Append(console,
                       Say("print", "[x] Error creating meeting summary for '"
                                    \o Get(event, "title", "") \o "': sequence item "
                                    \o ToStr(Least({ i \in 1..Len(attendees) :
                                                       attendees[i] = None }) - 1)
                                    \o ": expected str instance, NoneType found"))
                /\ UNCHANGED <<sync_pc, notion_vars>>
           ELSE /\ StartLoop("create_meeting_summary", meeting_summary_args(event),
                             "summary_main", <<>>,
                             extract_action_items_simple(Get(event, "description", "")))
                /\ sync_pc' = "summary_call"
                /\ UNCHANGED <<sum_i, console>>
    /\ UNCHANGED <<sync_kind, sync_date, fetched, sink_calls>>
    /\ UNCHANGED <<ex_vars, notion_env, proc, cal_env, cal_vars, session_state>>

\* lines 141-143: create_meeting_summary has returned
MeetingSummaryResult ==
    /\ proc = "cli"
    /\ sync_pc = "summary_call"
    /\ pc = "returned"
    /\ sync_pc' = "summaries"
    /\ sum_i' = sum_i + 1
    /\ console' = Append(console, Say("print", "[chart] Meeting Summary: " \o result.text))
    /\ sink_calls' = Append(sink_calls, SinkCall(tool, args, http, result))
    /\ UNCHANGED <<sync_kind, sync_date, fetched>>
    /\ UNCHANGED <<ex_vars, notion_env, notion_vars, proc, cal_env, cal_vars, session_state>>

\* the summaries are over and the run ends
SyncCompleted ==
    /\ proc = "cli"
    /\ sync_pc = "summaries"
    /\ sum_i > Len(fetched)
    /\ sync_pc' = "done"
    /\ console' = console \o Completion(sync_kind)
    /\ UNCHANGED <<sync_kind, sync_date, fetched, sum_i, sink_calls>>
    /\ UNCHANGED <<ex_vars, notion_env, notion_vars, proc, cal_env, cal_vars, session_state>>

\* the number of leading digits of s
LeadingDigits(s) ==
    LET stops == { i \in 1..Len(s) : ~IsDigit(CharAt(s, i)) }
    IN  IF stops = {} THEN Len(s) ELSE Least(stops) - 1

\* re.findall(r'Created (\d+) tasks', t): where the matches start
CreatedMatches(t) ==
    { i \in 1..Len(t) :
        /\ startswith(Drop(t, i - 1), "Created ")
        /\ LET rest == Drop(t, i + 7)
               n == LeadingDigits(rest)
           IN  n >= 1 /\ startswith(Drop(rest, n), " tasks") }

\* int(matches[0])
first_created_count(t) ==
    LET rest == Drop(t, Least(CreatedMatches(t)) + 7)
    IN  ToInt(Prefix(rest, LeadingDigits(rest)))

\* "Parse result to count created tasks" of the button "Sync Today's Events"
stats_after(st, kind, t, n_events) ==
    IF kind = "today" /\ contains(t, "Created") /\ contains(t, "tasks")
       /\ CreatedMatches(t) # {}
    THEN [st EXCEPT !.tasks_created = first_created_count(t),
                    !.time_saved = @ + n_events * 15]
    ELSE st

sync_type(kind, date) == IF kind = "today" THEN "Today's Events" ELSE "Date: " \o date

\* the rest of both buttons, keeping the latest sync only
TasksCreatedLatestOnly(t) ==
    /\ sync_pc' = "done"
    /\ stats' = stats_after(stats, sync_kind, t, Len(fetched))
    /\ sync_history' = <<[timestamp |-> NowStamp,
                          type |-> sync_type(sync_kind, sync_date),
                          events |-> Len(fetched),
                          result |-> t]>>
    /\ console' = Append(console, Say("st.success", "[ok] Tasks created successfully!"))
    /\ UNCHANGED <<sync_kind, sync_date, fetched, sum_i, session_events>>

\* the rest of both buttons once create_notion_tasks has given the text t
TasksCreated(t) ==
    /\ sync_pc' = "done"
    /\ stats' = stats_after(stats, sync_kind, t, Len(fetched))
    /\ sync_history' = Append(sync_history,
                              [timestamp |-> NowStamp,
                               type |-> sync_type(sync_kind, sync_date),
                               events |-> Len(fetched),
                               result |-> t])
    /\ console' = Append(console, Say("st.success", "[ok] Tasks created successfully!"))
    /\ UNCHANGED <<sync_kind, sync_date, fetched, sum_i, session_events>>

\* create_notion_tasks that sends the events of the first sync of a session only
CreateNotionTasksFirstSyncOnly ==
    /\ proc = "dashboard"
    /\ sync_pc = "fetched"
    /\ \E launched \in BOOLEAN :
          IF launched
          THEN /\ LET fresh == IF sync_history = <<>> THEN fetched ELSE <<>>
                  IN  StartLoop("create_tasks_from_calendar_events",
                                bulk_call_args(fresh), "bulk", fresh, <<>>)
               /\ sync_pc' = "bulk"
               /\ UNCHANGED <<sync_kind, sync_date, fetched, sum_i, console, sink_calls,
                              session_state>>
          ELSE /\ TasksCreated("Error creating tasks: " \o LaunchError)
               /\ UNCHANGED <<notion_vars, sink_calls>>
    /\ UNCHANGED <<ex_vars, notion_env, proc, cal_env, cal_vars>>

\* create_notion_tasks up to the bulk call; a server that does not start gives
\* the error text as the result
CreateNotionTasks ==
    /\ proc = "dashboard"
    /\ sync_pc = "fetched"
    /\ \E launched \in BOOLEAN :
          IF launched
          THEN /\ StartLoop("create_tasks_from_calendar_events",
                            bulk_call_args(fetched), "bulk", fetched, <<>>)
               /\ sync_pc' = "bulk"
               /\ UNCHANGED <<sync_kind, sync_date, fetched, sum_i, console, sink_calls,
                              session_state>>
          ELSE /\ TasksCreated("Error creating tasks: " \o LaunchError)
               /\ UNCHANGED <<notion_vars, sink_calls>>
    /\ UNCHANGED <<ex_vars, notion_env, proc, cal_env, cal_vars>>

\* the bulk call has returned its text to the button
NotionTasksCreated ==
    /\ proc = "dashboard"
    /\ sync_pc = "bulk"
    /\ pc = "returned"
    /\ TasksCreated(result.text)
    /\ sink_calls' = Append(sink_calls, SinkCall(tool, args, http, result))
    /\ UNCHANGED <<ex_vars, notion_env, notion_vars, proc, cal_env, cal_vars>>

\* the run is over: the CLI is run again, or a button is pressed again; both
\* servers of the run are gone, the files and the session stay
NextSync ==
    /\ sync_pc = "done"
    /\ Len(sync_history) < MaxSyncs
    /\ sync_pc' = "idle"
    /\ sync_kind' = ""
    /\ sync_date' = ""
    /\ fetched' = <<>>
    /\ sum_i' = 0
    /\ console' = <<>>
    /\ sink_calls' = <<>>
    /\ service' = "none"
    /\ cal_pc' = "idle"
    /\ cal_tool' = ""
    /\ cal_args' = EmptyDict
    /\ cal_result' = NoResult
    /\ cal_requests' = <<>>
    /\ auth_attempts' = 0
    /\ cal_answer' = NoAnswer
    /\ pc' = "idle"
    /\ tool' = ""
    /\ args' = EmptyDict
    /\ result' = NoResult
    /\ http' = <<>>
    /\ calls' = <<>>
    /\ last_resp' = NoResponse
    /\ any_failed' = FALSE
    /\ failed_after_created' = FALSE
    /\ events' = <<>>
    /\ ev_i' = 0
    /\ pending' = <<>>
    /\ created_tasks' = <<>>
    /\ UNCHANGED <<ex_vars, notion_env, proc, token_json, credentials_json, session_state>>

SyncInit ==
    /\ proc \in {"cli", "dashboard"}
    /\ ExIdle
    /\ NotionIdle
    /\ notion_api_key \in {"", "secret_key"}
    /\ notion_database_id = "db1"
    /\ CalendarEnvInit
    /\ CalendarIdle
    /\ SyncIdle
    /\ SessionInit

SyncNext ==
    \/ RunDailySync
    \/ RunCustomDateSync
    \/ SyncTodaysEvents
    \/ SyncSelectedDate
    \/ ProcessEventsToNotion
    \/ CreateNotionTasks
    \/ BulkEvent
    \/ BulkItem
    \/ BulkReturn
    \/ NotionResult
    \/ NotionTasksCreated
    \/ CreateMeetingSummary
    \/ SummaryMain
    \/ SummaryItem
    \/ SummaryReturn
    \/ MeetingSummaryResult
    \/ SyncCompleted
    \/ NextSync

SpecSync == SyncInit /\ [][SyncNext]_vars

(***************************************************************************)
(* SpecExtract: the two extractors applied to bounded descriptions.        *)
(***************************************************************************)
LineSamples ==
    { "- TODO: call vendor",
      "Agenda for the week",
      "* Task: x",
      "  Follow up - with Bob  ",
      "- todo: abcd",
      "todo: abcde",
      "-*  Assign the room" }

RepeatedLineSamples == { "- TODO: call vendor", "Agenda for the week" }

\* descriptions holding a line longer than both length limits
LongTexts ==
    { LongLine,
      "- TODO: call vendor\n" \o LongLine,
      LongLine \o "\n* Task: x\n" \o LongLine \o "\n- TODO: call vendor\ntodo: abcde" }

TextInputs ==
    { join(ls, "\n") : ls \in SeqsUpTo(LineSamples, MaxVariedLines)
                              \cup SeqsUpTo(RepeatedLineSamples, MaxRepeatedLines) }
        \cup LongTexts

ExInit ==
    /\ text \in TextInputs
    /\ items_bulk = <<>>
    /\ items_simple = <<>>
    /\ ex_done = {}
    /\ notion_api_key = ""
    /\ notion_database_id = ""
    /\ NotionIdle
    /\ proc = "extractors"
    /\ service = "none"
    /\ token_json = "absent"
    /\ credentials_json = FALSE
    /\ CalendarIdle
    /\ SyncIdle
    /\ SessionInit

ExtractBulk ==
    /\ "bulk" \notin ex_done
    /\ items_bulk' = extract_action_items_from_text(text)
    /\ ex_done' = ex_done \cup {"bulk"}
    /\ UNCHANGED <<text, items_simple, notion_env, notion_vars, proc, cal_env, cal_vars, sync_vars>>

ExtractSimple ==
    /\ "simple" \notin ex_done
    /\ items_simple' = extract_action_items_simple(text)
    /\ ex_done' = ex_done \cup {"simple"}
    /\ UNCHANGED <<text, items_bulk, notion_env, notion_vars, proc, cal_env, cal_vars, sync_vars>>

ExNext == ExtractBulk \/ ExtractSimple

SpecExtract == ExInit /\ [][ExNext]_vars

(***************************************************************************)
(* Properties of the extractors (SpecExtract).                             *)
(***************************************************************************)
\* the lines of text that yield an item, whatever the cap
MatchingLines == ScanLines(split(lower(text), "\n"), BulkItemLimit)

\* C2: the number of action items extracted from one description never
\* exceeds the cap of the path: 5 for _extract_action_items_from_text, 3 for
\* _extract_action_items_simple, however many lines match.
C2_ItemCountWithinCap ==
    /\ "bulk" \in ex_done => Len(items_bulk) <= 5
    /\ "simple" \in ex_done => Len(items_simple) <= 3

\* both extractors have run on a description with more matching lines than
\* either cap, and each returned exactly its cap
C2_Witness ==
    /\ ex_done = {"bulk", "simple"}
    /\ Len(MatchingLines) > 5
    /\ Len(items_bulk) = 5
    /\ Len(items_simple) = 3

\* C3 (as claimed): the line '- TODO: call vendor' yields the item
\* 'TODO: call vendor', bullet stripped, keyword and letter case kept.
C3_CaseKept ==
    /\ (text = "- TODO: call vendor" /\ "bulk" \in ex_done)
           => items_bulk = <<"TODO: call vendor">>
    /\ (text = "- TODO: call vendor" /\ "simple" \in ex_done)
           => items_simple = <<"TODO: call vendor">>

\* the seven keywords of the claim
SevenKeywords == {"todo", "action item", "follow up", "assign", "task", "deadline", "due"}

\* the line, lowercased, holds a keyword and its cleaned text is longer than
\* 10 characters
YieldsItem(line) ==
    /\ \E kw \in SevenKeywords : contains(lower(line), kw)
    /\ Len(CleanItem(strip(lower(line)))) > 10

\* the items of the lines of text that satisfy YieldsItem, in line order, cut
\* to limit characters
ItemsOfYieldingLines(limit) ==
    LET lines == SelectSeq(split(text, "\n"), YieldsItem)
    IN  [j \in 1..Len(lines) |-> Prefix(CleanItem(strip(lower(lines[j]))), limit)]

\* C12 (as claimed): a line yields an action item if and only if its
\* lowercased text holds one of the seven keywords and its cleaned text is
\* longer than 10 characters, in line order: every such line gives an item.
C12_EveryYieldingLineGivesItem ==
    /\ "bulk" \in ex_done => items_bulk = ItemsOfYieldingLines(100)
    /\ "simple" \in ex_done => items_simple = ItemsOfYieldingLines(80)

\* C12 (amended): the items are, in line order, those of the first 5 (bulk
\* path) or first 3 (summary path) lines whose lowercased text holds one of
\* the seven keywords and whose cleaned text is longer than 10 characters; no
\* other line gives an item, and a cleaned text of exactly 10 characters is
\* rejected.
C12_FirstYieldingLinesGiveItems ==
    /\ "bulk" \in ex_done =>
          /\ items_bulk = Take(ItemsOfYieldingLines(100), 5)
          /\ \A j \in 1..Len(items_bulk) : Len(items_bulk[j]) > 10
    /\ "simple" \in ex_done =>
          /\ items_simple = Take(ItemsOfYieldingLines(80), 3)
          /\ \A j \in 1..Len(items_simple) : Len(items_simple[j]) > 10

\* both extractors ran on a line without keyword, a line whose cleaned text
\* has 10 characters and a line whose cleaned text has 11
C12_Witness ==
    /\ ex_done = {"bulk", "simple"}
    /\ text = "Agenda for the week\n- todo: abcd\ntodo: abcde"
    /\ items_bulk = <<"todo: abcde">>
    /\ items_simple = <<"todo: abcde">>

RECURSIVE WithoutLeadingMarkers(_)
\* s without the bullet markers and the whitespace it starts with
WithoutLeadingMarkers(s) ==
    IF s # "" /\ IsSpace(CharAt(s, 1)) THEN WithoutLeadingMarkers(Drop(s, 1))
    ELSE IF startswith(s, "- ") \/ startswith(s, "* ")
    THEN WithoutLeadingMarkers(Drop(s, 2))
    ELSE s

\* the lines of text, lowercased, whose text holds a keyword and that gave
\* an item
LinesThatGaveItem ==
    SelectSeq(split(lower(text), "\n"), YieldsItem)

\* C13 (as claimed): the cleaned text of a matching line is the line without
\* its leading bullet markers and surrounding whitespace, the rest unchanged,
\* and no cleaned item begins with a bullet marker.
C13_OnlyLeadingMarkersRemoved ==
    "bulk" \in ex_done =>
        \A j \in 1..Len(items_bulk) :
            /\ items_bulk[j] = Prefix(rstrip(WithoutLeadingMarkers(LinesThatGaveItem[j])), 100)
            /\ ~startswith(items_bulk[j], "- ")
            /\ ~startswith(items_bulk[j], "* ")

\* both extractors have run on the text
BothExtracted == ex_done = {"bulk", "simple"}

\* C29: for every description the simple extractor returns exactly the first
\* three items of the bulk extractor, each cut to 80 characters.
C29_SimpleIsBulkCutDown ==
    BothExtracted =>
        items_simple = [k \in 1..Min(SimpleItemCap, Len(items_bulk)) |->
                           Prefix(items_bulk[k], SimpleItemLimit)]

\* a description of four yielding lines, the first two longer than 100
\* characters: four items of at most 100 characters, three of at most 80
C29_Witness ==
    /\ BothExtracted
    /\ Len(items_bulk) = 4
    /\ Len(items_simple) = 3
    /\ Len(items_bulk[1]) = 100 /\ Len(items_simple[1]) = 80
    /\ Len(items_bulk[2]) = 100 /\ Len(items_simple[2]) = 80
    /\ items_simple[3] = "todo: call vendor"
    /\ items_bulk[3] = "todo: call vendor"

(***************************************************************************)
(* Properties of the Notion server (Spec).                                 *)
(***************************************************************************)
BulkTool == "create_tasks_from_calendar_events"

\* the call being handled or just returned is bulk creation over a parsed list
InBulk == tool = BulkTool /\ "events" \in DOMAIN args /\ args.events.kind = "json"

\* bulk creation went through its whole loop and returned
BulkDone == InBulk /\ pc = "returned"

\* the positions in calls of the _create_task invocations made for event e
CallsOf(e) == { k \in 1..Len(calls) : calls[k].ev = e }

\* C1: in bulk creation, an event whose description is exactly
\* 'No description' gets exactly one create-record request, the event record,
\* and no action-item record, whatever extract_action_items is; with Notion
\* configured that request is one POST carrying the event's title.
C1_DefaultDescriptionOneRecord ==
    InBulk =>
        \A e \in 1..Len(events) :
            Get(events[e], "description", "") = "No description" =>
                /\ Cardinality(CallsOf(e)) = (IF e < ev_i THEN 1 ELSE 0)
                /\ \A k \in CallsOf(e) :
                      /\ calls[k].role = "event"
                      /\ NotionConfigured =>
                            /\ Len(http) = Len(calls)
                            /\ http[k].json.properties.Name
                                   = "[cal] " \o Get(events[e], "title", "Untitled Event")

\* a finished bulk creation with extraction on, over two events, the second
\* of which has the default description
C1_Witness ==
    /\ BulkDone
    /\ NotionConfigured
    /\ Get(args, "extract_action_items", TRUE)
    /\ Len(events) = 2
    /\ Get(events[2], "description", "") = "No description"
    /\ Cardinality(CallsOf(2)) = 1
    /\ Len(http) = Len(calls)

\* the due date the claim gives for an event
ExpectedDueDate(event) ==
    LET st == IF "start_time" \in DOMAIN event THEN event.start_time ELSE ""
        t == IndexIn("T", st, 1)
    IN  IF st = "" THEN ""
        ELSE IF t > 0 THEN SubSeq(st, 1, t - 1)
        ELSE st

\* C4: in the bulk path every record of an event (its own and its action
\* items') is given as due date the part of start_time before the first 'T',
\* the whole start_time when it holds no 'T', and '' when start_time is
\* missing or empty; '2024-03-01T10:00:00Z' gives '2024-03-01'.
C4_DueDateFromStartTime ==
    InBulk =>
        \A k \in 1..Len(calls) :
            /\ calls[k].args.due_date = ExpectedDueDate(events[calls[k].ev])
            /\ Get(events[calls[k].ev], "start_time", "") = "2024-03-01T10:00:00Z"
                   => calls[k].args.due_date = "2024-03-01"

\* an action-item record whose event starts at a date-time, after records of
\* an event with a plain date or no start_time
C4_Witness ==
    /\ InBulk
    /\ \E k \in 1..Len(calls) :
          /\ calls[k].role = "action"
          /\ contains(Get(events[calls[k].ev], "start_time", ""), "T")
          /\ calls[k].args.due_date = "2024-03-04"
    /\ \E k \in 1..Len(calls) :
          /\ "start_time" \notin DOMAIN events[calls[k].ev]
          /\ calls[k].args.due_date = ""

\* due dates that are not empty and that strptime('%Y-%m-%d') refuses
InvalidDueDates == {"next week", "2024-02-30", "2024-03-01T10:00:00Z"}

\* C5: create_task with a non-empty due_date that does not parse as %Y-%m-%d
\* still sends the create request (the server being configured and the title
\* given), with every other property as for any call and no 'Due Date'; the
\* outcome then depends on the response alone.
C5_InvalidDueDateOmitted ==
    ( /\ tool = "create_task"
      /\ pc = "returned"
      /\ NotionConfigured
      /\ "title" \in DOMAIN args
      /\ "due_date" \in DOMAIN args
      /\ args.due_date \in InvalidDueDates )
    => /\ Len(http) = 1
       /\ http[1].url = "https://api.notion.com/v1/pages"
       /\ http[1].json.properties =
              [Name |-> args.title,
               Status |-> "Not started",
               Priority |-> IF "priority" \in DOMAIN args THEN args.priority ELSE "Medium",
               Source |-> IF "source" \in DOMAIN args THEN args.source ELSE "Calendar",
               Created |-> NowIso]
       /\ http[1].json.children =
              (IF "description" \in DOMAIN args /\ args.description # ""
               THEN <<args.description>> ELSE <<>>)
       /\ result.kind = "text"
       /\ startswith(result.text, "[ok] Task created successfully")
              <=> (last_resp.kind = "response" /\ last_resp.status_code = 200
                   /\ last_resp.id # "")
       /\ ~startswith(result.text, "[ok] Task created successfully")
              => startswith(result.text, "[x] Error creating task: ")

\* a create_task call with the due date 'next week' that created a page
C5_Witness ==
    /\ tool = "create_task"
    /\ pc = "returned"
    /\ "due_date" \in DOMAIN args
    /\ args.due_date = "next week"
    /\ Len(http) = 1
    /\ startswith(result.text, "[ok] Task created successfully")

\* the capitalised form of a priority name
Capitalised(priority) ==
    CASE lower(priority) = "high" -> "High"
      [] lower(priority) = "medium" -> "Medium"
      [] lower(priority) = "low" -> "Low"

\* C7: get_tasks with filter_by 'high', 'medium' or 'low' in any letter case
\* sends one query whose filter is Priority equals 'High', 'Medium' or 'Low'.
C7_PriorityFilterCapitalised ==
    ( /\ tool = "get_tasks"
      /\ pc = "returned"
      /\ "filter_by" \in DOMAIN args
      /\ lower(args.filter_by) \in {"high", "medium", "low"} )
    => /\ Len(http) = 1
       /\ "filter" \in DOMAIN http[1].json
       /\ http[1].json.filter =
              [property |-> "Priority", equals |-> Capitalised(args.filter_by)]

\* get_tasks was called with 'HIGH' and asked for Priority equals 'High'
C7_Witness ==
    /\ tool = "get_tasks"
    /\ pc = "returned"
    /\ "filter_by" \in DOMAIN args
    /\ args.filter_by = "HIGH"
    /\ Len(http) = 1
    /\ http[1].json.filter.equals = "High"

\* C9 (as claimed): with the API key or the database id missing, every Task
\* Sink operation sends no HTTP request and returns a not-configured error.
C9_UnconfiguredNoRequestAndError ==
    ( /\ pc = "returned"
      /\ ~NotionConfigured
      /\ tool \in {"create_task", BulkTool, "create_meeting_summary", "get_tasks"}
      /\ result.kind = "text"
      /\ ~startswith(result.text, "Error executing")
      /\ ~startswith(result.text, "[x] Error: Invalid JSON")
      /\ ~startswith(result.text, "[x] Error creating tasks from events")
      /\ ~startswith(result.text, "[x] Error creating meeting summary") )
    => /\ http = <<>>
       /\ contains(result.text, "not configured")

\* the calls made for the events themselves, in the order they were made
EventCalls == SelectSeq(calls, LAMBDA c : c.role = "event")

\* C10: bulk creation over a parsable list of n events makes exactly n
\* event-record requests, one per event in input order, each with priority
\* Medium, source Calendar and the event's due date, whether or not an earlier
\* create failed; with Notion configured each is a POST carrying them.
C10_OneEventRecordPerEvent ==
    BulkDone =>
        /\ startswith(result.text, "[ok] Created ")
        /\ Len(EventCalls) = Len(events)
        /\ \A e \in 1..Len(events) :
              /\ EventCalls[e].ev = e
              /\ EventCalls[e].args.title
                     = "[cal] " \o Get(events[e], "title", "Untitled Event")
              /\ EventCalls[e].args.priority = "Medium"
              /\ EventCalls[e].args.source = "Calendar"
              /\ EventCalls[e].args.due_date = ExpectedDueDate(events[e])
        /\ NotionConfigured =>
              /\ Len(http) = Len(calls)
              /\ \A k \in 1..Len(calls) :
                    calls[k].role = "event" =>
                        /\ http[k].json.properties.Name = calls[k].args.title
                        /\ http[k].json.properties.Priority = "Medium"
                        /\ http[k].json.properties.Source = "Calendar"
                        /\ ExpectedDueDate(events[calls[k].ev]) \in {"2024-03-01", "2024-03-02", "2024-03-04"}
                               => http[k].json.properties["Due Date"]
                                      = ExpectedDueDate(events[calls[k].ev])

\* a finished bulk creation over two events in which a create failed and the
\* event whose start_time is no date ('next week') came first
C10_Witness ==
    /\ BulkDone
    /\ NotionConfigured
    /\ any_failed
    /\ Len(events) = 2
    /\ Get(events[1], "start_time", "") = "next week"
    /\ Len(EventCalls) = 2

\* the _create_task invocations made for the action items of event e
ActionCallsOf(e) == SelectSeq(calls, LAMBDA c : c.ev = e /\ c.role = "action")

\* the lines of a description that give an item, from the first line down
ItemLines(description) ==
    SelectSeq(split(lower(description), "\n"),
              LAMBDA l : AnyKeywordIn(l) /\ Len(CleanItem(strip(l))) > 10)

\* C11: in bulk creation the record of an event is requested before the
\* records of its action items, these follow in the order of the lines of the
\* description, and all of them come before the record of the next event;
\* every action-item record has priority High, source Meeting and the due date
\* of its event.
C11_EventThenItemsInLineOrder ==
    InBulk =>
        /\ \A k \in 1..Len(calls) :
              /\ k > 1 => calls[k - 1].ev <= calls[k].ev
              /\ calls[k].role = "event" <=> (k = 1 \/ calls[k - 1].ev < calls[k].ev)
              /\ calls[k].role \in {"event", "action"}
              /\ calls[k].role = "action" =>
                    /\ calls[k].args.priority = "High"
                    /\ calls[k].args.source = "Meeting"
                    /\ calls[k].args.due_date = EventCalls[calls[k].ev].args.due_date
        /\ \A e \in 1..Len(events) :
              LET lines == ItemLines(Get(events[e], "description", ""))
                  made == ActionCallsOf(e)
              IN  /\ Len(made) <= Len(lines)
                  /\ \A j \in 1..Len(made) :
                        made[j].args.title
                            = "[target] " \o Prefix(CleanItem(strip(lines[j])), 100)

\* a finished bulk creation: the first event's record, its two action items
\* in line order, then the second event's record
C11_Witness ==
    /\ BulkDone
    /\ Len(calls) >= 4
    /\ calls[1].role = "event" /\ calls[1].ev = 1
    /\ calls[2].role = "action" /\ calls[2].ev = 1
    /\ calls[2].args.title = "[target] todo: call vendor"
    /\ calls[3].role = "action" /\ calls[3].ev = 1
    /\ calls[3].args.title = "[target] follow up with bob on budget"
    /\ calls[4].role = "event" /\ calls[4].ev = 2
\* len(title) in the code, where one character stands where the model
\* writes the tag [target]
TitleLength(t) == IF startswith(t, "[target] ") THEN Len(t) - 7 ELSE Len(t)

\* C14 (as claimed): the title of every action-item record sent to the task
\* API in the bulk path is at most 100 characters long, whatever the length of
\* the matching line.
C14_ActionTitleWithinLimit ==
    (InBulk /\ NotionConfigured) =>
        \A k \in 1..Len(calls) :
            calls[k].role = "action" =>
                /\ TitleLength(calls[k].args.title) <= 100
                /\ TitleLength(http[k].json.properties.Name) <= 100
\* C15: with extract_action_items false, bulk creation makes exactly one
\* create request per event and none for an action item, whatever the
\* descriptions hold; with it true or omitted, every description other than
\* 'No description' is scanned and gives its (at most 5) action-item requests.
C15_FlagControlsExtraction ==
    BulkDone =>
        IF Get(args, "extract_action_items", TRUE)
        THEN \A e \in 1..Len(events) :
                 Len(ActionCallsOf(e)) =
                     (IF Get(events[e], "description", "") = "No description" THEN 0
                      ELSE Min(5, Len(ItemLines(Get(events[e], "description", "")))))
        ELSE /\ Len(calls) = Len(events)
             /\ \A k \in 1..Len(calls) : calls[k].role = "event" /\ calls[k].ev = k
             /\ NotionConfigured => Len(http) = Len(events)

\* a finished bulk creation with the flag false over two events, one of them
\* with two matching lines in its description: two requests
C15_Witness ==
    /\ BulkDone
    /\ NotionConfigured
    /\ "extract_action_items" \in DOMAIN args
    /\ ~args.extract_action_items
    /\ Len(events) = 2
    /\ Get(events[1], "description", "") = TwoItemNotes
    /\ Len(http) = 2
\* create_meeting_summary was called with a title, a summary and action_items
\* that parse as a list (or without action_items), and has returned
SummaryDone ==
    /\ tool = "create_meeting_summary"
    /\ pc = "returned"
    /\ "meeting_title" \in DOMAIN args
    /\ "summary" \in DOMAIN args
    /\ "action_items" \in DOMAIN args => args.action_items.kind = "json"

\* the list given as action_items
SuppliedItems == IF "action_items" \in DOMAIN args THEN args.action_items.value ELSE <<>>

\* C16: create_meeting_summary with a parsable action_items list makes exactly
\* 1 + min(len(action_items), 5) create requests: the summary record first,
\* then one action-item record (priority High, source Meeting) per supplied
\* item in the supplied order, whether or not the item holds a keyword; the
\* count it reports is min(len(action_items), 5).
C16_SummaryPlusCappedItems ==
    SummaryDone =>
        LET n == Min(Len(SuppliedItems), 5)
        IN  /\ Len(calls) = 1 + n
            /\ calls[1].role = "summary"
            /\ calls[1].args.title = "[chart] Meeting Summary: " \o args.meeting_title
            /\ \A j \in 1..n :
                  /\ calls[1 + j].role = "action"
                  /\ calls[1 + j].args.title = "[target] " \o SuppliedItems[j]
                  /\ calls[1 + j].args.priority = "High"
                  /\ calls[1 + j].args.source = "Meeting"
            /\ result.text = "[ok] Created meeting summary and " \o ToStr(n)
                                 \o " action items for: " \o args.meeting_title
            /\ NotionConfigured =>
                  /\ Len(http) = 1 + n
                  /\ \A k \in 1..(1 + n) :
                        http[k].json.properties.Name = calls[k].args.title

\* a meeting summary with six supplied items, none holding a keyword: six
\* requests, five action items reported
C16_Witness ==
    /\ SummaryDone
    /\ NotionConfigured
    /\ Len(SuppliedItems) = 6
    /\ Len(http) = 6
    /\ http[6].json.properties.Name = "[target] Send report 5"
    /\ result.text = "[ok] Created meeting summary and 5 action items for: Planning"

\* a create_task call that sent its request and got an HTTP response
CreateTaskAnswered ==
    /\ tool = "create_task"
    /\ pc = "returned"
    /\ Len(http) = 1
    /\ last_resp.kind = "response"

TwoXX(status_code) == 200 <= status_code /\ status_code < 300

\* C17: create_task reports success with the created record's id exactly when
\* the response has a 2xx status; for every non-2xx response it reports an
\* error carrying the status code and the response body
C17_SuccessExactlyOnTwoXX ==
    CreateTaskAnswered =>
        /\ TwoXX(last_resp.status_code) <=>
               result = Text("[ok] Task created successfully: '" \o args["title"]
                             \o "'\nPage ID: " \o last_resp.id)
        /\ ~TwoXX(last_resp.status_code) =>
               result = Text("[x] Error creating task: "
                             \o ToStr(last_resp.status_code)
                             \o " - " \o last_resp.text)

BatchTools == {"create_tasks_from_calendar_events", "create_meeting_summary"}

\* the _create_task calls of the batch that stand for one record: an event's
\* own task, the summary task, the j-th action item of an event or summary
RecordCalls(cs, e, role) == { k \in 1..Len(cs) : cs[k].ev = e /\ cs[k].role = role }

\* the action items the batch has to create for event e (0: the summary)
ItemsDue(e) ==
    IF tool = "create_meeting_summary"
    THEN Min(Len(SuppliedItems), SummaryItemCap)
    ELSE IF e \in 1..Len(events)
    THEN Len(items_of_event(events[e], Get(args, "extract_action_items", TRUE)))
    ELSE 0

\* C18: in a batch (bulk creation or meeting summary) every _create_task call
\* sends at most one create request (no retry): one record, one call, one
\* request; a step of the batch only adds one create request to those already
\* sent, also after a request has failed: nothing else (no delete, no undo) is
\* ever sent and the requests of the records created earlier stay as they were.
C18_NoRetryNoRollback ==
    [][ (tool' \in BatchTools /\ pc' # "idle") =>
           /\ Len(http') <= Len(calls')
           /\ NotionConfigured => Len(http') = Len(calls')
           /\ \A k \in 1..Len(http') :
                 http'[k] = PostPages(create_task_payload(calls'[k].args))
           /\ \A e \in 0..Len(events') :
                 /\ Cardinality(RecordCalls(calls', e, "event")) <= 1
                 /\ Cardinality(RecordCalls(calls', e, "summary")) <= 1
           /\ pc \notin {"idle", "returned"} =>
                 /\ Len(http') <= Len(http) + 1
                 /\ SubSeq(http', 1, Len(http)) = http
                 /\ SubSeq(calls', 1, Len(calls)) = calls
                 /\ \A e \in 0..Len(events) :
                       Cardinality(RecordCalls(calls', e, "action")) <= ItemsDue(e)
      ]_vars

\* a finished bulk creation of four requests, where a request failed after
\* earlier ones had created their pages: all four requests are in the log
C18_Witness ==
    /\ tool = "create_tasks_from_calendar_events"
    /\ pc = "returned"
    /\ failed_after_created
    /\ Len(http) = 4 /\ Len(calls) = 4
    /\ \A k \in 1..4 : http[k].url = notion_url \o "/pages"

FetchTools == {"get_todays_events", "get_events_by_date"}

\* C19: on one calendar server, a call authenticates only while no service is
\* built (a fetch call then authenticates once); once a service is built it
\* stays built, no later call authenticates or touches the token, and every
\* list request is sent with the service built.
C19_AuthenticateOnlyWithoutService ==
    [][ /\ service = "built" => service' = "built"
        /\ (cal_pc = "idle" /\ cal_pc' = "returned") =>
              /\ auth_attempts' =
                     IF service = "none" /\ cal_tool' \in FetchTools THEN 1 ELSE 0
              /\ service = "built" =>
                     /\ auth_attempts' = 0
                     /\ token_json' = token_json
              /\ cal_requests' # <<>> => service' = "built"
      ]_vars

\* a fetch call that sent its list request without authenticating: the service
\* was built by an earlier call
C19_Witness ==
    /\ proc = "calendar_server"
    /\ cal_pc = "returned"
    /\ cal_tool \in FetchTools
    /\ service = "built"
    /\ auth_attempts = 0
    /\ Len(cal_requests) = 1

\* a step in which a calendar fetch call is handled
FetchCallStep == cal_pc = "idle" /\ cal_pc' = "returned" /\ cal_tool' \in FetchTools

\* the call failed to authenticate: an error result, no list request, the
\* server still without a service, authentication tried (and to be tried by
\* the next call: C19)
AuthenticationRefused(msg) ==
    /\ cal_result' = Text("Error executing " \o cal_tool' \o ": " \o msg)
    /\ cal_requests' = <<>>
    /\ service' = "none"
    /\ auth_attempts' = 1
    /\ token_json' = token_json

CredentialsMissingText ==
    "credentials.json file not found. Please download it from Google Cloud Console."

\* a failed list request gives the error text with the raw message
ListFailureSurfaced ==
    cal_answer'.kind = "exception" =>
        cal_result' = Text("Error fetching events: " \o cal_answer'.text)

StatusNames == {"Not started"}
SourceNames == {"Calendar", "Meeting"}

\* C21: get_tasks with a non-empty filter_by naming a status or a source sends
\* a query with a filter on that property (Status or Source) equal to the
\* name, as it does for a priority.
C21_StatusOrSourceFilterSent ==
    ( /\ tool = "get_tasks"
      /\ pc = "returned"
      /\ "filter_by" \in DOMAIN args
      /\ args.filter_by \in StatusNames \cup SourceNames )
    => /\ Len(http) = 1
       /\ "filter" \in DOMAIN http[1].json
       /\ http[1].json.filter.property
              = (IF args.filter_by \in StatusNames THEN "Status" ELSE "Source")
       /\ http[1].json.filter.equals = args.filter_by

\* d is written YYYY-MM-DD: four digits, two digits, two digits
YearMonthDayForm(d) ==
    /\ Len(d) = 10
    /\ CharAt(d, 5) = "-" /\ CharAt(d, 8) = "-"
    /\ \A i \in {1, 2, 3, 4, 6, 7, 9, 10} : IsDigit(CharAt(d, i))

InvalidDateText == Text("Invalid date format. Please use YYYY-MM-DD.")

\* a bulk creation whose events are no JSON, a meeting summary whose
\* action_items are no JSON: nothing sent, an error text
UnparsablePayloadRefused ==
    /\ ( /\ tool = BulkTool
         /\ pc = "returned"
         /\ "events" \in DOMAIN args
         /\ args.events.kind = "notjson" )
       => /\ http = <<>> /\ calls = <<>>
          /\ result = Text("[x] Error: Invalid JSON format for events.")
    /\ ( /\ tool = "create_meeting_summary"
         /\ pc = "returned"
         /\ {"meeting_title", "summary", "action_items"} \subseteq DOMAIN args
         /\ args.action_items.kind = "notjson" )
       => /\ http = <<>> /\ calls = <<>>
          /\ result.kind = "text"
          /\ startswith(result.text, "[x] Error creating meeting summary: ")

\* a get_events_by_date call with a date has returned
DateCallReturned ==
    /\ cal_tool = "get_events_by_date"
    /\ cal_pc = "returned"
    /\ "date" \in DOMAIN cal_args

\* C24 as stated: unparsable events or action_items give an error text and no
\* create request; get_events_by_date with a date not written YYYY-MM-DD sends
\* no list request and returns the invalid-date-format message.
C24_MalformedInputRefused ==
    /\ UnparsablePayloadRefused
    /\ (DateCallReturned /\ ~YearMonthDayForm(cal_args.date)) =>
           /\ cal_requests = <<>>
           /\ cal_result = InvalidDateText

\* C24 (amended): unparsable events or action_items give an error text and no
\* create request; get_events_by_date with a date that strptime('%Y-%m-%d')
\* rejects sends no list request, and returns the invalid-date-format message
\* when the server is authenticated, the authentication error when it is not.
\* A date that strptime accepts is queried, zero-padded or not.
C24_RejectedInputRefused ==
    /\ UnparsablePayloadRefused
    /\ (DateCallReturned /\ ~strptime_ok(cal_args.date)) =>
           /\ cal_requests = <<>>
           /\ service = "built" => cal_result = InvalidDateText
           /\ service = "none" =>
                  /\ auth_attempts = 1
                  /\ startswith(cal_result.text, "Error executing get_events_by_date: ")
    /\ (DateCallReturned /\ strptime_ok(cal_args.date) /\ service = "built") =>
           /\ Len(cal_requests) = 1
           /\ cal_result # InvalidDateText

\* an authenticated server has refused the date 03/01/2024 without a request
C24_Witness ==
    /\ DateCallReturned
    /\ cal_args.date = "03/01/2024"
    /\ service = "built"
    /\ cal_requests = <<>>
    /\ cal_result = InvalidDateText

CreateTools == {"create_task", BulkTool, "create_meeting_summary"}

\* C25: every create request built by _create_task carries Name equal to the
\* title, Status 'Not started', the priority given or 'Medium', the source
\* given or 'Calendar' and a Created timestamp; it carries the description as
\* a content block exactly when the description is non-empty, and a Due Date
\* (the text given) exactly when due_date is non-empty and strptime accepts it.
C25_CreateRequestFields ==
    (tool \in CreateTools /\ Len(http) = Len(calls)) =>
        \A k \in 1..Len(http) :
            LET a == calls[k].args
                p == http[k].json
                description == Get(a, "description", "")
                due_date == Get(a, "due_date", "")
            IN  /\ http[k].url = notion_url \o "/pages"
                /\ p.parent = notion_database_id
                /\ p.properties.Name = a.title
                /\ p.properties.Status = "Not started"
                /\ p.properties.Priority = Get(a, "priority", "Medium")
                /\ p.properties.Source = Get(a, "source", "Calendar")
                /\ p.properties.Created = NowIso
                /\ p.children = (IF description # "" THEN <<description>> ELSE <<>>)
                /\ "Due Date" \in DOMAIN p.properties
                       <=> (due_date # "" /\ strptime_ok(due_date))
                /\ "Due Date" \in DOMAIN p.properties =>
                       p.properties["Due Date"] = due_date

\* a create_task call with only a title and a due date that is no date has
\* sent its request: the defaults, no content block, no Due Date
C25_Witness ==
    /\ tool = "create_task"
    /\ pc = "returned"
    /\ DOMAIN args = {"title", "due_date"}
    /\ args.due_date = "next week"
    /\ Len(http) = 1
    /\ http[1].json.properties.Priority = "Medium"
    /\ http[1].json.properties.Source = "Calendar"
    /\ "Due Date" \notin DOMAIN http[1].json.properties
    /\ http[1].json.children = <<>>

\* the requests sent so far by the call being handled, of any kind
RequestsSent == Len(http) + Len(cal_requests)

\* C26: requests go out one at a time: a step of a server sends at most one
\* request (calendar list, task create or task query) and has its answer
\* before the step ends (requests.post and execute() block), so a create
\* request of a batch is answered before the next is sent; bulk creation works
\* on one event at a time, each new request being for the event at ev_i, and
\* moves to the next event only when the items of this one are done.
C26_OneRequestAtATime ==
    [][ /\ Len(http') + Len(cal_requests') <= RequestsSent + 1
        /\ Len(calls') <= Len(calls) + 1
        /\ (pc = "bulk" /\ pc' = "bulk") =>
              /\ Len(calls') = Len(calls) + 1
              /\ calls'[Len(calls')].ev = ev_i
              /\ ev_i' = IF pending' = <<>> THEN ev_i + 1 ELSE ev_i
              /\ \A k \in 1..Len(calls) : calls[k].ev <= ev_i
        /\ (pc = "summary_items" /\ pc' = "summary_items") =>
              /\ Len(calls') = Len(calls) + 1
              /\ Len(pending') = Len(pending) - 1
      ]_vars

\* bulk creation is at its second event, whose own task is requested and whose
\* two items are still to be requested; the first event took three requests
C26_Witness ==
    /\ tool = BulkTool
    /\ pc = "bulk"
    /\ ev_i = 2
    /\ Len(http) = 4
    /\ Len(pending) = 2
    /\ calls[4].role = "event" /\ calls[4].ev = 2
    /\ calls[3].ev = 1

\* the create attempts bulk creation owes its events: one per event and one
\* per extracted action item
AttemptsDue ==
    LET flag == Get(args, "extract_action_items", TRUE)
        F[i \in 0..Len(events)] ==
            IF i = 0 THEN 0 ELSE F[i - 1] + 1 + Len(items_of_event(events[i], flag))
    IN  F[Len(events)]

\* the line of the summary for the k-th attempt
ListedAs(k) ==
    IF calls[k].role = "event"
    THEN "* Event: " \o Get(events[calls[k].ev], "title", "Untitled Event")
    ELSE "* Action: " \o Drop(calls[k].args.title, Len("[target] "))

\* C28: the N of 'Created N tasks' is the number of create attempts made, one
\* per event plus one per extracted action item, not the number that created a
\* page: an attempt that failed remotely or was refused as not configured is
\* counted and listed like the others, and every event of the list is
\* processed whatever happened to the attempts before it.
C28_CountIsAttempts ==
    BulkDone =>
        /\ Len(calls) = AttemptsDue
        /\ \A e \in 1..Len(events) : \E k \in 1..Len(calls) :
               calls[k].ev = e /\ calls[k].role = "event"
        /\ result = Text("[ok] Created " \o ToStr(Len(calls))
                         \o " tasks from calendar events:\n"
                         \o join([k \in 1..Len(calls) |-> ListedAs(k)], "\n"))
        /\ ~NotionConfigured => http = <<>>

\* bulk creation over two events has returned 'Created 4 tasks' although an
\* attempt failed after earlier ones had created their pages
C28_Witness ==
    /\ BulkDone
    /\ Len(events) = 2
    /\ failed_after_created
    /\ Len(calls) = 4 /\ Len(http) = 4
    /\ startswith(result.text, "[ok] Created 4 tasks from calendar events:\n* Event: ")

\* C8: every tool call to either server, whatever the tool name, the
\* arguments and the failure (authentication, remote, parsing), returns a text
\* result: no exception leaves handle_call_tool.
C8_EveryCallReturnsText ==
    /\ pc = "returned" => result.kind = "text"
    /\ cal_pc = "returned" => cal_result.kind = "text"

\* get_todays_events returned the text of the exception that the missing
\* credentials.json raised in authentication
C8_Witness ==
    /\ cal_pc = "returned"
    /\ cal_tool = "get_todays_events"
    /\ ~credentials_json
    /\ auth_attempts = 1
    /\ service = "none"
    /\ cal_result.kind = "text"
    /\ cal_result.text = "Error executing get_todays_events: credentials.json file "
                         \o "not found. Please download it from Google Cloud Console."

(***************************************************************************)
(* Properties of the sync runs (SpecSync).                                 *)
(***************************************************************************)
\* the calendar server asked the API and answered that the day has no event
EmptyFetch ==
    /\ cal_pc = "returned"
    /\ Len(cal_requests) = 1
    /\ cal_result = Text(IF sync_kind \in {"daily", "today"}
                         THEN "No events found for today."
                         ELSE "No events found for " \o sync_date \o ".")

\* t tells that there is no event
NoEventsMessage(t) ==
    \/ contains(t, "No events found")
    \/ contains(t, "No calendar events found")
    \/ contains(t, "No events scheduled")

\* an error shown by the CLI or by the dashboard
ErrorShown(m) == m.via = "st.error" \/ contains(m.text, "[x]") \/ contains(m.text, "Error")

\* C6: when the calendar fetch for the requested day (today or a given date)
\* returns no events, the sync sends nothing to the task sink (no Notion tool
\* is called, no request is sent) and shows a 'no events found' message and no
\* error, in the CLI workflow and in the dashboard.
C6_EmptyFetchNoSinkRequest ==
    EmptyFetch =>
        /\ sync_pc = "done"
        /\ sink_calls = <<>>
        /\ pc = "idle"
        /\ http = <<>>
        /\ calls = <<>>
        /\ \E i \in 1..Len(console) : NoEventsMessage(console[i].text)
        /\ \A i \in 1..Len(console) : ~ErrorShown(console[i])
        /\ sync_kind \in {"today", "date"} => console[Len(console)].via = "st.info"

\* the dashboard's sync of a selected date ended on a day without events
C6_Witness ==
    /\ EmptyFetch
    /\ proc = "dashboard"
    /\ sync_kind = "date"
    /\ sync_pc = "done"
    /\ console = <<Say("st.info", "[cal] No events found for 2024-03-01")>>


\* the step in which the sink call of a dashboard sync returns to its button
SinkReturns == sync_pc \in {"fetched", "bulk"} /\ sync_pc' = "done"

\* C22: over any sequence of dashboard syncs sync_history only grows: the
\* step in which the sink call of a sync returns appends one entry (timestamp,
\* sync type, number of events fetched, which is at least one, and the result
\* text); a sync that fetched no event ends without an entry; no other step
\* changes the list, and no entry already there is changed or removed.
C22_SyncHistoryAppendOnly ==
    [][ proc = "dashboard" =>
           /\ SubSeq(sync_history', 1, Len(sync_history)) = sync_history
           /\ Len(sync_history') = Len(sync_history) + (IF SinkReturns THEN 1 ELSE 0)
           /\ SinkReturns =>
                 LET entry == sync_history'[Len(sync_history')]
                 IN  /\ entry.timestamp = NowStamp
                     /\ entry.type = sync_type(sync_kind, sync_date)
                     /\ entry.events = Len(fetched)
                     /\ entry.events >= 1
                     /\ sync_pc = "bulk" => entry.result = result.text
                     /\ sync_pc = "fetched" =>
                            entry.result = "Error creating tasks: " \o LaunchError
           /\ (sync_pc = "idle" /\ fetched' = <<>> /\ sync_pc' # "idle") =>
                 /\ sync_pc' = "done"
                 /\ sync_history' = sync_history
           /\ (sync_pc = "idle" /\ fetched' # <<>>) => sync_pc' = "fetched"
      ]_vars

\* two syncs of the dashboard, today's and the selected date's, have each left
\* their entry, the older one first
C22_Witness ==
    /\ proc = "dashboard"
    /\ sync_pc = "done"
    /\ Len(sync_history) = 2
    /\ sync_history[1].type = "Date: 2024-03-01"
    /\ sync_history[2].type = "Today's Events"
    /\ sync_history[2].events >= 1
    /\ startswith(sync_history[2].result, "[ok] Created ")


\* the fetch of the run gave a parsed, non-empty event list
FetchGaveEvents ==
    /\ cal_pc = "returned"
    /\ cal_result.is_json
    /\ cal_result.value # <<>>

\* no request to the task sink has been made in the run
NoSinkRequest ==
    /\ pc = "idle"
    /\ tool = ""
    /\ http = <<>>
    /\ sink_calls = <<>>

\* C23: in every sync run (CLI daily, CLI custom date, both dashboard buttons)
\* the calendar fetch runs once, as the first step of the run, with at most
\* one list request, and nothing is asked of the task sink before it has
\* ended; when the fetch failed (server not started, error text) or its text
\* is no event list, nothing is asked of the sink in the whole run.
C23_FetchOnceBeforeSink ==
    [][ /\ sync_pc = "idle" =>
              /\ NoSinkRequest
              /\ cal_pc = "idle"
              /\ sync_pc' # "idle" =>
                    /\ cal_tool' \in {"", "get_todays_events", "get_events_by_date"}
                    /\ Len(cal_requests') <= 1
                    /\ UNCHANGED <<pc, tool, http, sink_calls>>
        /\ (sync_pc # "idle" /\ sync_pc' # "idle") =>
              /\ UNCHANGED cal_vars
              /\ UNCHANGED fetched
        /\ (sync_pc # "idle" /\ ~FetchGaveEvents) =>
              /\ NoSinkRequest
              /\ sync_pc = "done"
        /\ (sync_pc # "idle" /\ FetchGaveEvents) => fetched = cal_result.value
      ]_vars

\* a run whose fetch ended in an error text is over and has asked nothing of
\* the sink
C23_Witness ==
    /\ sync_pc = "done"
    /\ cal_pc = "returned"
    /\ cal_result = Text("Error fetching events: <HttpError 403 Forbidden>")
    /\ Len(cal_requests) = 1
    /\ NoSinkRequest


\* the create requests of the run so far, sink call after sink call
RunRequests ==
    LET F[k \in 0..Len(sink_calls)] ==
            IF k = 0 THEN <<>> ELSE F[k - 1] \o sink_calls[k].http
    IN  F[Len(sink_calls)]

CreateRequestFor(task_args) == PostPages(create_task_payload(task_args))

\* the create requests bulk creation owes the events evs, from evs alone
BulkRequestsFor(evs) ==
    LET requests(e) ==
            LET items == items_of_event(e, TRUE)
            IN  <<CreateRequestFor(main_task_args(e))>>
                \o [j \in 1..Len(items) |->
                       CreateRequestFor(
                           action_task_args(items[j], Get(e, "title", "Untitled Event"),
                                            due_date_of(e)))]
        F[i \in 0..Len(evs)] == IF i = 0 THEN <<>> ELSE F[i - 1] \o requests(evs[i])
    IN  F[Len(evs)]

\* the create requests the meeting summaries of the CLI owe the events evs
SummaryRequestsFor(evs) ==
    LET requests(e) ==
            LET attendees == Get(e, "attendees", <<>>)
            IN  IF ~looks_like_meeting(Get(e, "description", ""))
                   \/ \E i \in 1..Len(attendees) : attendees[i] = None
                THEN <<>>
                ELSE LET a == meeting_summary_args(e)
                         items == Take(a.action_items.value, SummaryItemCap)
                     IN  <<CreateRequestFor(summary_task_args(a, a.action_items.value))>>
                         \o [j \in 1..Len(items) |->
                                CreateRequestFor(
                                    action_task_args(items[j], a.meeting_title,
                                                     a.meeting_date))]
        F[i \in 0..Len(evs)] == IF i = 0 THEN <<>> ELSE F[i - 1] \o requests(evs[i])
    IN  F[Len(evs)]

\* a run whose sink calls have all returned
SinkDone == sync_pc = "done" /\ sink_calls # <<>>

\* C27: the create requests of a sync are a function of the events fetched in
\* that sync (and of the Notion configuration, fixed for the session): a run
\* whose sink calls have returned has sent, in this order, the requests bulk
\* creation owes the fetched events and, in the CLI, those of the meeting
\* summaries, whatever syncs ran before in the session and whatever the API
\* answered; so two runs that fetch equal lists send equal requests, and
\* nothing created by an earlier sync is skipped.
C27_RequestsDependOnFetchedOnly ==
    SinkDone =>
        RunRequests =
            (IF ~NotionConfigured THEN <<>>
             ELSE IF proc = "cli"
             THEN BulkRequestsFor(fetched) \o SummaryRequestsFor(fetched)
             ELSE BulkRequestsFor(fetched))

\* the second sync of a dashboard session has returned the same text as the
\* first and has sent all its requests again
C27_Witness ==
    /\ proc = "dashboard"
    /\ SinkDone
    /\ NotionConfigured
    /\ Len(sync_history) = 2
    /\ sync_history[1].events = sync_history[2].events
    /\ sync_history[1].result = sync_history[2].result
    /\ startswith(sync_history[2].result, "[ok] Created ")
    /\ Len(RunRequests) >= 2


MeetingWords == {"meeting", "discuss", "review", "action", "todo", "follow"}

\* the description reads like a meeting to _create_meeting_summaries
ReadsLikeMeeting(description) ==
    /\ description # "No description"
    /\ Len(description) > 50
    /\ \E w \in MeetingWords : contains(lower(description), w)

\* C30: in a CLI sync the bulk call has returned, with all its create
\* requests, before any create_meeting_summary call; a meeting summary is
\* called only for a fetched event whose description is not 'No description',
\* is longer than 50 characters and holds one of meeting, discuss, review,
\* action, todo, follow, at most once per event; one event causes at most 1 + 5
\* create requests in the bulk call and 1 + 3 in its summary call, 10 in all.
C30_BulkThenSummariesWithinTen ==
    proc = "cli" =>
        /\ \A k \in 1..Len(sink_calls) :
              sink_calls[k].tool = (IF k = 1 THEN BulkTool ELSE "create_meeting_summary")
        /\ tool = "create_meeting_summary" =>
              /\ Len(sink_calls) >= 1
              /\ sync_pc \in {"summary_call", "summaries", "done"}
              /\ \E e \in 1..Len(fetched) :
                    /\ args.summary = Get(fetched[e], "description", "")
                    /\ args.meeting_title = Get(fetched[e], "title", "")
                    /\ ReadsLikeMeeting(args.summary)
              /\ Len(calls) <= 1 + SimpleItemCap
              /\ Len(http) <= 1 + SimpleItemCap
        /\ tool = BulkTool =>
              \A e \in 1..Len(events) :
                  Cardinality({ k \in 1..Len(calls) : calls[k].ev = e }) <= 1 + BulkItemCap
        /\ \A k \in 2..Len(sink_calls) :
              /\ ReadsLikeMeeting(sink_calls[k].args.summary)
              /\ Len(sink_calls[k].http) <= 1 + SimpleItemCap
        /\ Len(sink_calls) >= 1 => Len(sink_calls) - 1 <= Min(sum_i, Len(fetched))
        /\ Len(RunRequests) <= 10 * Len(fetched)

\* a CLI sync of one event with six action items is over: six create requests
\* in the bulk call, then four in the meeting summary call
C30_Witness ==
    /\ proc = "cli"
    /\ sync_pc = "done"
    /\ Len(fetched) = 1
    /\ Len(sink_calls) = 2
    /\ sink_calls[1].tool = BulkTool
    /\ Len(sink_calls[1].http) = 6
    /\ sink_calls[2].tool = "create_meeting_summary"
    /\ Len(sink_calls[2].http) = 4
    /\ Len(RunRequests) = 10

====
